---- MODULE Spec2Model ----
(***************************************************************************)
(* Model of the AIM transcript parser (src/src/aim_parser.py).             *)
(*                                                                         *)
(* A document is a sequence of lexemes.  Every lexeme stands for a fixed   *)
(* piece of text: a whole tag ("<B>", "</FONT>", ...), one of the two      *)
(* halves of the comment timestamp ("<!--(" is `<!-- (` and ")-->" is      *)
(* `)-->`), a word, a single character or an HTML entity.  The regular     *)
(* expressions of the parser are translated on lexemes: a character class  *)
(* such as [^<] becomes a test on what characters a lexeme contains.       *)
(***************************************************************************)
EXTENDS Integers, Sequences, FiniteSets, TLC

\* ------------------------------------------------------------------------
\* Lexemes
\* ------------------------------------------------------------------------

\* '<SPAN STYLE="background-color: #ffffff;">', the wrapper-opening marker
SPANW == "<SPANW>"

\* the literal phrase 'signed off at'
SIGNED == "signed off at"

\* the lexemes that are complete tags: they start with '<' and end with '>'
Tags == {"<B>", "</B>", "<FONT>", "</FONT>", "<BR>", "<I>", "<HR>",
         SPANW, "<SPAN>", "</SPAN>"}

\* the lexemes that start with '</'
ClosingTags == {"</B>", "</FONT>", "</SPAN>"}

\* lexeme contains the character '<' (then it starts with it)
HasLT(x) == x \in Tags \/ x = "<!--("

\* lexeme contains the character '>' (then it ends with it)
HasGT(x) == x \in Tags \/ x = ")-->"

\* lexeme contains the character ')'
HasRP(x) == x \in {")", ")-->"}

\* lexeme contains the character '('
HasLP(x) == x \in {"(", "<!--("}

\* lexeme is made of whitespace only (str.strip, \s)
IsSpace(x) == x \in {" ", "\n"}

\* lexeme contains the text 'SPAN'
HasSPAN(x) == x \in {SPANW, "<SPAN>", "</SPAN>"}

\* number of characters of a lexeme, as far as len(clean_text) > 1 can tell
CharLen(x) == IF x \in {" ", "\n", ":", "(", ")", ".", "k", "\"", "&"} THEN 1 ELSE 2

\* ------------------------------------------------------------------------
\* Sequence helpers (str.find, str.split, str.strip, `in`)
\* ------------------------------------------------------------------------

\* least index i >= from with P-lexeme x at s[i]; 0 stands for Python's -1
Find(s, x, from) ==
    IF \E i \in from..Len(s) : s[i] = x
    THEN CHOOSE i \in from..Len(s) : s[i] = x /\ \A j \in from..(i-1) : s[j] # x
    ELSE 0

Contains(s, x) == \E i \in 1..Len(s) : s[i] = x

FirstGT(s, from) ==
    IF \E i \in from..Len(s) : HasGT(s[i])
    THEN CHOOSE i \in from..Len(s) : HasGT(s[i]) /\ \A j \in from..(i-1) : ~HasGT(s[j])
    ELSE 0

FirstLT(s, from) ==
    IF \E i \in from..Len(s) : HasLT(s[i])
    THEN CHOOSE i \in from..Len(s) : HasLT(s[i]) /\ \A j \in from..(i-1) : ~HasLT(s[j])
    ELSE 0

FirstRP(s, from) ==
    IF \E i \in from..Len(s) : HasRP(s[i])
    THEN CHOOSE i \in from..Len(s) : HasRP(s[i]) /\ \A j \in from..(i-1) : ~HasRP(s[j])
    ELSE 0

FirstNonSpace(s, from) ==
    IF \E i \in from..Len(s) : ~IsSpace(s[i])
    THEN CHOOSE i \in from..Len(s) : ~IsSpace(s[i]) /\ \A j \in from..(i-1) : IsSpace(s[j])
    ELSE 0

RECURSIVE Split(_, _)
Split(s, d) ==
    LET i == Find(s, d, 1)
    IN  IF i = 0 THEN <<s>>
        ELSE <<SubSeq(s, 1, i - 1)>> \o Split(SubSeq(s, i + 1, Len(s)), d)

RECURSIVE LStrip(_)
LStrip(s) == IF s # <<>> /\ IsSpace(s[1]) THEN LStrip(Tail(s)) ELSE s

RECURSIVE RStrip(_)
RStrip(s) == IF s # <<>> /\ IsSpace(s[Len(s)]) THEN RStrip(SubSeq(s, 1, Len(s) - 1)) ELSE s

Strip(s) == RStrip(LStrip(s))

RECURSIVE TextLen(_)
TextLen(s) == IF s = <<>> THEN 0 ELSE CharLen(s[1]) + TextLen(Tail(s))

\* ------------------------------------------------------------------------
\* Content normalizer
\* ------------------------------------------------------------------------

\* re.sub(r'<[^>]+>', '', text)
RECURSIVE StripTags(_)
StripTags(s) ==
    IF s = <<>> THEN <<>>
    ELSE IF HasLT(s[1])
         THEN LET j == FirstGT(s, 1)
              IN  IF j = 0 THEN s ELSE StripTags(SubSeq(s, j + 1, Len(s)))
         ELSE <<s[1]>> \o StripTags(Tail(s))

\* html.unescape(text)
RECURSIVE Unescape(_)
Unescape(s) ==
    IF s = <<>> THEN <<>>
    ELSE IF s[1] = "&quot;" THEN <<"\"">> \o Unescape(Tail(s))
    ELSE IF s[1] = "&amp;" THEN <<"&">> \o Unescape(Tail(s))
    ELSE IF s[1] = "&#32;" THEN <<" ">> \o Unescape(Tail(s))
    ELSE IF s[1] = "&" /\ Len(s) > 1 /\ s[2] = "quot;"
         THEN <<"\"">> \o Unescape(SubSeq(s, 3, Len(s)))
    ELSE <<s[1]>> \o Unescape(Tail(s))

\* length of the run of whitespace lexemes at the head of s
RECURSIVE SpaceRun(_)
SpaceRun(s) == IF s # <<>> /\ IsSpace(s[1]) THEN 1 + SpaceRun(Tail(s)) ELSE 0

\* length of the run of plain spaces at the head of s
RECURSIVE BlankRun(_)
BlankRun(s) == IF s # <<>> /\ s[1] = " " THEN 1 + BlankRun(Tail(s)) ELSE 0

\* re.sub(r'\s*\n\s*', ' ', text)
RECURSIVE CollapseNewlines(_)
CollapseNewlines(s) ==
    IF s = <<>> THEN <<>>
    ELSE LET n == SpaceRun(s)
         IN  IF n > 0 /\ Contains(SubSeq(s, 1, n), "\n")
             THEN <<" ">> \o CollapseNewlines(SubSeq(s, n + 1, Len(s)))
             ELSE IF n > 0
                  THEN SubSeq(s, 1, n) \o CollapseNewlines(SubSeq(s, n + 1, Len(s)))
                  ELSE <<s[1]>> \o CollapseNewlines(Tail(s))

\* a substitution that takes one space off every run of two or more
RECURSIVE CollapseSpaces_DropOne(_)
CollapseSpaces_DropOne(s) ==
    IF s = <<>> THEN <<>>
    ELSE LET n == BlankRun(s)
         IN  IF n >= 2
             THEN SubSeq(s, 2, n) \o CollapseSpaces_DropOne(SubSeq(s, n + 1, Len(s)))
             ELSE IF n > 0
                  THEN SubSeq(s, 1, n) \o CollapseSpaces_DropOne(SubSeq(s, n + 1, Len(s)))
                  ELSE <<s[1]>> \o CollapseSpaces_DropOne(Tail(s))

\* re.sub(r'   +', '  ', text)
RECURSIVE CollapseSpaces(_)
CollapseSpaces(s) ==
    IF s = <<>> THEN <<>>
    ELSE LET n == BlankRun(s)
         IN  IF n >= 3
             THEN <<" ", " ">> \o CollapseSpaces(SubSeq(s, n + 1, Len(s)))
             ELSE IF n > 0
                  THEN SubSeq(s, 1, n) \o CollapseSpaces(SubSeq(s, n + 1, Len(s)))
                  ELSE <<s[1]>> \o CollapseSpaces(Tail(s))

\* the clean-up without the final strip()
Normalize_NoStrip(s) == CollapseSpaces(CollapseNewlines(Unescape(s)))

\* html.unescape, newline collapsing, space collapsing, strip
Normalize(s) == Strip(CollapseSpaces(CollapseNewlines(Unescape(s))))

\* ------------------------------------------------------------------------
\* Message (dataclass, aim_parser.py 9-14)
\* ------------------------------------------------------------------------

Message(sender, timestamp, content, is_system_message) ==
    [sender |-> sender, timestamp |-> timestamp, content |-> content,
     is_system_message |-> is_system_message]

\* ------------------------------------------------------------------------
\* Sign-off: re.search(r'([^>]+signed off at[^<]+)', line)
\* ------------------------------------------------------------------------

\* the pattern matches from lexeme p with its literal phrase at lexeme q
SignOffAt(line, p, q) ==
    /\ p < q
    /\ q < Len(line)
    /\ line[q] = SIGNED
    /\ \A k \in p..(q - 1) : ~HasGT(line[k])
    /\ ~HasLT(line[q + 1])

SignOffMatches(line) ==
    \E p \in 1..Len(line) : \E q \in 1..Len(line) : SignOffAt(line, p, q)

\* group(1) of the leftmost match, [^>]+ greedy, [^<]+ greedy
SignOffGroup(line) ==
    LET p == CHOOSE p \in 1..Len(line) :
                 /\ \E q \in 1..Len(line) : SignOffAt(line, p, q)
                 /\ \A p2 \in 1..(p - 1) : \A q \in 1..Len(line) : ~SignOffAt(line, p2, q)
        q == CHOOSE q \in 1..Len(line) :
                 /\ SignOffAt(line, p, q)
                 /\ \A q2 \in (q + 1)..Len(line) : ~SignOffAt(line, p, q2)
        n == FirstLT(line, q + 1)
        e == IF n = 0 THEN Len(line) ELSE n - 1
    IN  SubSeq(line, p, e)

\* ------------------------------------------------------------------------
\* CommentBasedParser
\* ------------------------------------------------------------------------

\* '<!-- (' in line and ')-->' in line
CommentCanParse(html_content) ==
    Contains(html_content, "<!--(") /\ Contains(html_content, ")-->")

\* r'<B>.*?<FONT[^>]*>([^<]+)<!-- \(([^)]+)\)--></B>' matched with its
\* <B> at lexeme b and its <FONT> at lexeme f ('.' does not match a newline)
CommentHeaderAt(line, b, f) ==
    /\ b < f
    /\ line[b] = "<B>"
    /\ line[f] = "<FONT>"
    /\ \A k \in (b + 1)..(f - 1) : line[k] # "\n"
    /\ LET c == FirstLT(line, f + 1)
       IN  /\ c > f + 1
           /\ line[c] = "<!--("
           /\ LET r == FirstRP(line, c + 1)
              IN  /\ r > c + 1
                  /\ line[r] = ")-->"
                  /\ r < Len(line)
                  /\ line[r + 1] = "</B>"

CommentHeaderMatches(line) ==
    \E b \in 1..Len(line) : \E f \in 1..Len(line) : CommentHeaderAt(line, b, f)

\* groups of the leftmost match, '.*?' lazy
CommentHeaderGroups(line) ==
    LET b == CHOOSE b \in 1..Len(line) :
                 /\ \E f \in 1..Len(line) : CommentHeaderAt(line, b, f)
                 /\ \A b2 \in 1..(b - 1) : \A f \in 1..Len(line) : ~CommentHeaderAt(line, b2, f)
        f == CHOOSE f \in 1..Len(line) :
                 /\ CommentHeaderAt(line, b, f)
                 /\ \A f2 \in 1..(f - 1) : ~CommentHeaderAt(line, b, f2)
        c == FirstLT(line, f + 1)
        r == FirstRP(line, c + 1)
    IN  [sender |-> SubSeq(line, f + 1, c - 1), timestamp |-> SubSeq(line, c + 1, r - 1)]

\* re.findall(r'<FONT[^>]*>(.*?)</FONT>', content_part, re.DOTALL)
RECURSIVE FontMatches(_)
FontMatches(s) ==
    LET f == Find(s, "<FONT>", 1)
        e == IF f = 0 THEN 0 ELSE Find(s, "</FONT>", f + 1)
    IN  IF e = 0 THEN <<>>
        ELSE <<SubSeq(s, f + 1, e - 1)>> \o FontMatches(SubSeq(s, e + 1, Len(s)))

\* the loop stopping after the first container
CombineContent_FirstOnly(font_matches) ==
    IF font_matches = <<>> THEN <<>> ELSE StripTags(font_matches[1])

\* the loop 'for match in font_matches: combined_content += clean_match'
RECURSIVE CombineContent(_)
CombineContent(font_matches) ==
    IF font_matches = <<>> THEN <<>>
    ELSE StripTags(font_matches[1]) \o CombineContent(Tail(font_matches))

\* re.sub(r'^[:\s]+', '', combined_content)
RECURSIVE StripLeadingColons(_)
StripLeadingColons(s) ==
    IF s # <<>> /\ (s[1] = ":" \/ IsSpace(s[1])) THEN StripLeadingColons(Tail(s)) ELSE s

\* the content of the block, or <<>> when 'if combined_content.strip()' fails
\* (a returned <<>> with emit TRUE is a Message with empty content)
CommentContent(line) ==
    LET sender_end == Find(line, "</B>", 1)
        content_part == SubSeq(line, sender_end, Len(line))
        combined_content == StripLeadingColons(CombineContent(FontMatches(content_part)))
    IN  [emit |-> sender_end # 0 /\ Strip(combined_content) # <<>>,
         full_content |-> Normalize(combined_content)]

\* _process_message_line giving up on the whole document at a block without header
ProcessMessageLine_Abort(line, msgs) ==
    IF Contains(line, SIGNED) /\ SignOffMatches(line)
    THEN Append(msgs, Message(<<"System">>, <<>>, Strip(SignOffGroup(line)), TRUE))
    ELSE IF ~CommentHeaderMatches(line) THEN <<>>
    ELSE LET g == CommentHeaderGroups(line)
             c == CommentContent(line)
         IN  IF c.emit
             THEN Append(msgs, Message(Strip(g.sender), Strip(g.timestamp), c.full_content, FALSE))
             ELSE msgs

\* _process_message_line looking for the header before the sign-off phrase
ProcessMessageLine_HeaderFirst(line, msgs) ==
    IF CommentHeaderMatches(line) /\ CommentContent(line).emit
    THEN LET g == CommentHeaderGroups(line)
             c == CommentContent(line)
         IN  Append(msgs, Message(Strip(g.sender), Strip(g.timestamp), c.full_content, FALSE))
    ELSE IF Contains(line, SIGNED) /\ SignOffMatches(line)
    THEN Append(msgs, Message(<<"System">>, <<>>, Strip(SignOffGroup(line)), TRUE))
    ELSE msgs

\* CommentBasedParser._process_message_line: the messages after the call
ProcessMessageLine(line, msgs) ==
    IF Contains(line, SIGNED) /\ SignOffMatches(line)
    THEN Append(msgs, Message(<<"System">>, <<>>, Strip(SignOffGroup(line)), TRUE))
    ELSE IF ~CommentHeaderMatches(line) THEN msgs
    ELSE LET g == CommentHeaderGroups(line)
             c == CommentContent(line)
         IN  IF c.emit
             THEN Append(msgs, Message(Strip(g.sender), Strip(g.timestamp), c.full_content, FALSE))
             ELSE msgs

\* ------------------------------------------------------------------------
\* SpanBasedParser
\* ------------------------------------------------------------------------

\* '<SPAN STYLE="background-color: #ffffff;">' in html_content
SpanCanParse(html_content) == Contains(html_content, SPANW)

\* the while loop of _find_span_end from cursor i with counter span_count;
\* the result is a lexeme index, 0 standing for the return value -1
RECURSIVE FindSpanEndFrom(_, _, _)
FindSpanEndFrom(content, i, span_count) ==
    IF i > Len(content) \/ span_count <= 0
    THEN IF span_count > 0 THEN 0 ELSE i
    ELSE IF HasSPAN(content[i]) /\ content[i] # "</SPAN>"
         THEN LET tag_end == FirstGT(content, i)
              IN  FindSpanEndFrom(content, IF tag_end # 0 THEN tag_end + 1 ELSE i + 1,
                                  span_count + 1)
         ELSE IF content[i] = "</SPAN>"
              THEN IF span_count - 1 = 0 THEN i
                   ELSE FindSpanEndFrom(content, i + 1, span_count - 1)
              ELSE FindSpanEndFrom(content, i + 1, span_count)

\* _find_span_end taking the end of the text for the end of an open wrapper
FindSpanEnd_EndOfText(content) ==
    IF FindSpanEndFrom(content, 1, 1) = 0 THEN Len(content) + 1
    ELSE FindSpanEndFrom(content, 1, 1)

FindSpanEnd(content) == FindSpanEndFrom(content, 1, 1)

\* r'<FONT[^>]*>([^<]+)<SPAN[^>]*>\s*\(([^)]+)\)</SPAN></B>:?</FONT>' matched
\* with its <FONT> at lexeme f
SpanHeaderTailAt(m, f) ==
    /\ m[f] = "<FONT>"
    /\ LET c == FirstLT(m, f + 1)
       IN  /\ c > f + 1
           /\ m[c] = "<SPAN>"
           /\ LET p == FirstNonSpace(m, c + 1)
              IN  /\ p # 0
                  /\ m[p] = "("
                  /\ LET r == FirstRP(m, p + 1)
                     IN  /\ r > p + 1
                         /\ m[r] = ")"
                         /\ r + 3 <= Len(m)
                         /\ m[r + 1] = "</SPAN>"
                         /\ m[r + 2] = "</B>"
                         /\ \/ m[r + 3] = "</FONT>"
                            \/ /\ m[r + 3] = ":"
                               /\ r + 4 <= Len(m)
                               /\ m[r + 4] = "</FONT>"

\* Pattern 1: the same behind a '<B>'
SpanHeader1At(m, f) == f > 1 /\ m[f - 1] = "<B>" /\ SpanHeaderTailAt(m, f)

\* Pattern 2
SpanHeader2At(m, f) == SpanHeaderTailAt(m, f)

SpanHeaderGroups(m, f) ==
    LET c == FirstLT(m, f + 1)
        p == FirstNonSpace(m, c + 1)
        r == FirstRP(m, p + 1)
    IN  [sender |-> SubSeq(m, f + 1, c - 1), timestamp |-> SubSeq(m, p + 1, r - 1)]

\* sender_match after both attempts: [ok, sender, timestamp]
SpanSenderMatch(m) ==
    IF \E f \in 1..Len(m) : SpanHeader1At(m, f)
    THEN LET f == CHOOSE f \in 1..Len(m) :
                      SpanHeader1At(m, f) /\ \A f2 \in 1..(f - 1) : ~SpanHeader1At(m, f2)
         IN  [ok |-> TRUE, g |-> SpanHeaderGroups(m, f)]
    ELSE IF \E f \in 1..Len(m) : SpanHeader2At(m, f)
    THEN LET f == CHOOSE f \in 1..Len(m) :
                      SpanHeader2At(m, f) /\ \A f2 \in 1..(f - 1) : ~SpanHeader2At(m, f2)
         IN  [ok |-> TRUE, g |-> SpanHeaderGroups(m, f)]
    ELSE [ok |-> FALSE, g |-> [sender |-> <<>>, timestamp |-> <<>>]]

\* r'[^<]*(?:<[^/][^>]*>[^<]*)*?</FONT>' matched from lexeme p: the index of
\* the closing </FONT>, or 0 when the pattern does not match there
RECURSIVE SpanFontBodyEnd(_, _)
SpanFontBodyEnd(s, p) ==
    IF p > Len(s) THEN 0
    ELSE IF s[p] = "</FONT>" THEN p
    ELSE IF ~HasLT(s[p]) THEN SpanFontBodyEnd(s, p + 1)
    ELSE IF s[p] \in ClosingTags THEN 0
    ELSE LET j == FirstGT(s, p)
         IN  IF j = 0 THEN 0 ELSE SpanFontBodyEnd(s, j + 1)

\* re.findall(r'<FONT[^>]*>([^<]*(?:<[^/][^>]*>[^<]*)*?)</FONT>', message_html)
RECURSIVE SpanFontMatches(_)
SpanFontMatches(s) ==
    LET f == Find(s, "<FONT>", 1)
    IN  IF f = 0 THEN <<>>
        ELSE LET e == SpanFontBodyEnd(s, f + 1)
             IN  IF e = 0 THEN SpanFontMatches(SubSeq(s, f + 1, Len(s)))
                 ELSE <<SubSeq(s, f + 1, e - 1)>> \o SpanFontMatches(SubSeq(s, e + 1, Len(s)))

\* the test of the loop body of _extract_message_content
Qualifies(match) ==
    LET clean_text == Strip(StripTags(match))
    IN  /\ clean_text # <<>>
        /\ clean_text # <<":">>
        /\ \A k \in 1..Len(clean_text) : ~HasLP(clean_text[k]) /\ ~HasRP(clean_text[k])
        /\ \A k \in 1..Len(match) : ~HasSPAN(match[k])
        /\ TextLen(clean_text) > 1

\* the loop keeping the last container that passes the test
RECURSIVE FirstContent_Last(_)
FirstContent_Last(font_matches) ==
    IF font_matches = <<>> THEN <<>>
    ELSE LET rest == FirstContent_Last(Tail(font_matches))
         IN  IF rest # <<>> \/ ~Qualifies(font_matches[1]) THEN rest
             ELSE Normalize(Strip(StripTags(font_matches[1])))

\* the loop 'for match in font_matches' of _extract_message_content
RECURSIVE FirstContent(_)
FirstContent(font_matches) ==
    IF font_matches = <<>> THEN <<>>
    ELSE IF Qualifies(font_matches[1])
         THEN Normalize(Strip(StripTags(font_matches[1])))
         ELSE FirstContent(Tail(font_matches))

ExtractMessageContent(message_html) == FirstContent(SpanFontMatches(message_html))

\* SpanBasedParser._process_span_message: the messages after the call
ProcessSpanMessage(message_html, msgs) ==
    IF Contains(message_html, SIGNED) /\ SignOffMatches(message_html)
    THEN Append(msgs, Message(<<"System">>, <<>>, Strip(SignOffGroup(message_html)), TRUE))
    ELSE LET sender_match == SpanSenderMatch(message_html)
             content == ExtractMessageContent(message_html)
         IN  IF sender_match.ok /\ content # <<>>
             THEN Append(msgs, Message(Strip(sender_match.g.sender),
                                       Strip(sender_match.g.timestamp), content, FALSE))
             ELSE msgs

\* ------------------------------------------------------------------------
\* AIMParserFactory
\* ------------------------------------------------------------------------

\* get_parser with parser_classes in the other order
GetParserClass_CommentFirst(html_content) ==
    IF CommentCanParse(html_content) THEN "CommentBasedParser"
    ELSE IF SpanCanParse(html_content) THEN "SpanBasedParser"
    ELSE "CommentBasedParser"

\* AIMParserFactory.get_parser: the class of the parser it returns
GetParserClass(html_content) ==
    IF SpanCanParse(html_content) THEN "SpanBasedParser"
    ELSE IF CommentCanParse(html_content) THEN "CommentBasedParser"
    ELSE "CommentBasedParser"

\* ------------------------------------------------------------------------
\* Documents: up to MaxLines lines of a transcript, one after the other
\* ------------------------------------------------------------------------

MaxLines == 2

\* a message of the comment-annotated dialect, colon in its own container
LineComment ==
    <<"<B>", "<FONT>", "Alice", "<!--(", "1PM", ")-->", "</B>", "</FONT>",
      "<FONT>", ":", "</FONT>", "<FONT>", " ", "</FONT>",
      "<FONT>", "hello", "</FONT>", "<BR>", "\n">>

\* a message whose body holds an entity, a line break and a run of spaces
LineCommentLong ==
    <<"<B>", "<FONT>", "Bob", "<!--(", "2PM", ")-->", "</B>", ":", "</FONT>",
      "<FONT>", " ", "<I>", "</FONT>",
      "<FONT>", "&quot;", "hi", " ", " ", " ", "<BR>", "\n", "there", "</FONT>", "<BR>", "\n">>

\* a message whose body holds runs of spaces
LineCommentSpaces ==
    <<"<B>", "<FONT>", "Alice", "<!--(", "1PM", ")-->", "</B>", "</FONT>",
      "<FONT>", ":", " ", "</FONT>",
      "<FONT>", "hi", " ", " ", " ", " ", "there", " ", " ", " ", "</FONT>", "<BR>", "\n">>

\* a header with nothing but the separator behind it
LineCommentBlank ==
    <<"<B>", "<FONT>", "Bob", "<!--(", "2PM", ")-->", "</B>", "</FONT>",
      "<FONT>", ":", " ", "</FONT>", "<BR>", "\n">>

\* a header whose body is an encoded space
LineCommentEntity ==
    <<"<B>", "<FONT>", "Alice", "<!--(", "1PM", ")-->", "</B>", "</FONT>",
      ":", " ", "<FONT>", "&#32;", "</FONT>", "<BR>", "\n">>

\* a line with a timestamp comment whose header is malformed (no <FONT>)
LineCommentBad ==
    <<"<B>", "Bob", "<!--(", "2PM", ")-->", "</B>", ":", " ",
      "<FONT>", "hello", "</FONT>", "<BR>", "\n">>

\* an away-message reply
LineCommentAuto ==
    <<"<B>", "<FONT>", "Auto response from ", "Bob", "<!--(", "2PM", ")-->", "</B>", "</FONT>",
      ":", " ", "<FONT>", "sleeping", "</FONT>", "<BR>", "\n">>

\* a sign-off notice
LineSignOff ==
    <<"<B>", "<FONT>", "Alice", " ", SIGNED, " ", "1PM", "</B>", ".", "</FONT>", "<BR>", "\n">>

\* a session-concluded marker
LineSession ==
    <<"<HR>", "<B>", "Session concluded at", " ", "1PM", "</B>", "<HR>", "\n">>

\* a line without any header
LineJunk == <<"<I>", "hello", "<BR>", "\n">>

\* a wrapper of the nested-markup dialect, header variant (a)
LineSpanA ==
    <<SPANW, "<B>", "<FONT>", "Bob", "<SPAN>", " ", "(", "2PM", ")", "</SPAN>", "</B>", "</FONT>",
      "<FONT>", ":", " ", "</FONT>", "<FONT>", "hello", "</FONT>", "</SPAN>", "<BR>", "\n">>

\* a wrapper with header variant (b)
LineSpanB ==
    <<SPANW, "<FONT>", "Alice", "<SPAN>", " ", "(", "1PM", ")", "</SPAN>", "</B>", ":", "</FONT>",
      "<FONT>", " ", "hi", "\n", "there", "</FONT>", "<BR>", "</SPAN>", "\n">>

\* a wrapper whose first containers do not qualify as content
LineSpanSkip ==
    <<SPANW, "<B>", "<FONT>", "Alice", "<SPAN>", " ", "(", "1PM", ")", "</SPAN>", "</B>", "</FONT>",
      "<FONT>", "(", "lol", ")", "</FONT>", "<FONT>", "k", "</FONT>",
      "<FONT>", "<I>", "there", "</FONT>", "<FONT>", "hello", "</FONT>", "</SPAN>", "<BR>", "\n">>

\* a wrapper with a header and no container that qualifies
LineSpanEmpty ==
    <<SPANW, "<B>", "<FONT>", "Bob", "<SPAN>", " ", "(", "2PM", ")", "</SPAN>", "</B>", "</FONT>",
      "<FONT>", ":", " ", "</FONT>", "<FONT>", "k", "</FONT>", "</SPAN>", "<BR>", "\n">>

\* a wrapper whose first qualifying container holds encoded spaces only
LineSpanEntity ==
    <<SPANW, "<B>", "<FONT>", "Alice", "<SPAN>", " ", "(", "1PM", ")", "</SPAN>", "</B>", "</FONT>",
      "<FONT>", "&#32;", "&#32;", "</FONT>", "<FONT>", "hello", "</FONT>", "</SPAN>", "<BR>", "\n">>

\* a wrapper that is never closed
LineSpanOpen ==
    <<SPANW, "<B>", "<FONT>", "Bob", "<SPAN>", " ", "(", "2PM", ")", "</SPAN>", "</B>", "</FONT>",
      "<FONT>", ":", " ", "</FONT>", "<FONT>", "hello", "</FONT>", "<BR>", "\n">>

\* a wrapper without a header
LineSpanJunk == <<SPANW, "<FONT>", "hello", "</FONT>", "</SPAN>", "<BR>", "\n">>

\* an away-message reply in a wrapper
LineSpanAuto ==
    <<SPANW, "<B>", "<FONT>", "Auto response from ", "Alice", "<SPAN>", " ", "(", "1PM", ")",
      "</SPAN>", "</B>", "</FONT>", "<FONT>", ":", " ", "</FONT>",
      "<FONT>", "sleeping", "</FONT>", "</SPAN>", "<BR>", "\n">>

\* a sign-off notice in a wrapper
LineSpanSignOff ==
    <<SPANW, "<B>", "<FONT>", "Bob", " ", SIGNED, " ", "2PM", "</B>", ".", "</FONT>",
      "</SPAN>", "<BR>", "\n">>

Lines ==
    {LineComment, LineCommentLong, LineCommentSpaces, LineCommentBlank, LineCommentEntity, LineCommentBad, LineCommentAuto,
     LineSignOff, LineSession, LineJunk,
     LineSpanA, LineSpanB, LineSpanSkip, LineSpanEmpty, LineSpanEntity, LineSpanOpen, LineSpanJunk,
     LineSpanAuto, LineSpanSignOff}

RECURSIVE DocsOf(_)
DocsOf(n) ==
    IF n = 0 THEN {<<>>}
    ELSE {d \o l : d \in DocsOf(n - 1), l \in Lines}

Documents == UNION {DocsOf(n) : n \in 1..MaxLines}

\* ------------------------------------------------------------------------
\* State: one call of AIMParser.parse
\* ------------------------------------------------------------------------

VARIABLES
    html_content,          \* the document handed to parse
    pc,                    \* "start", "comment", "span" or "done"
    parser,                \* the class the factory returned, "" before
    lines,                 \* CommentBasedParser.parse: html_content.split('<BR>')
    parts,                 \* SpanBasedParser.parse: parts[1:]
    idx,                   \* position of the for loop in lines or parts
    current_message_html,  \* CommentBasedParser.parse: the block being built
    flushed_blocks,        \* the blocks handed to _process_message_line so far
    messages               \* the list parse builds and returns

\* the state of one call of AIMParser.parse
parse_vars ==
    <<html_content, pc, parser, lines, parts, idx, current_message_html, flushed_blocks, messages>>

\* the clean-up of one extracted text (aim_parser.py 116-129)
VARIABLES
    n_pc,                  \* "idle", "raw", "message" or "dropped"
    font_match,            \* the text found in one styled-text container
    full_content           \* the content of the message, <<>> before

normalize_vars == <<n_pc, font_match, full_content>>

\* one call of extract_date_from_filename
VARIABLES
    d_pc,                  \* "idle", "call", "returned" or "raised"
    filename,              \* the name handed in, a sequence of characters
    extracted              \* the datetime returned, None before and on failure

date_vars == <<d_pc, filename, extracted>>

\* one call of MarkdownConverter.convert
VARIABLES
    c_pc,                  \* "idle", "call", "returned" or "raised"
    c_messages,            \* parameter messages
    conversation_date,     \* parameter conversation_date, None when absent
    group_consecutive,     \* parameter group_consecutive
    description,           \* parameter description, None when absent
    tags,                  \* parameter tags, None when absent
    markdown               \* the lines of the text returned

convert_vars == <<c_pc, c_messages, conversation_date, group_consecutive, description, tags, markdown>>

\* one call of _sample_conversation_content
VARIABLES
    s_pc,                  \* "idle", "call" or "returned"
    conversation_content,  \* parameter conversation_content
    max_messages,          \* parameter max_messages
    sampled                \* the text returned

sample_vars == <<s_pc, conversation_content, max_messages, sampled>>

\* one call of process_file, around the call of AIMParser.parse
VARIABLES
    p_pc,                  \* "idle", "parse", "convert", "returned" or "raised"
    input_name,            \* input_path.name
    p_description,         \* parameter description
    custom_tags,           \* parameter custom_tags
    participants,          \* parameter participants
    p_date,                \* local variable date
    output_file,           \* what was written to output_path, NotWritten before
    stdout,                \* the lines printed to standard output
    stderr,                \* the lines printed to standard error
    p_raised               \* the exception process_file raised, None when none

process_vars ==
    <<p_pc, input_name, p_description, custom_tags, participants, p_date, output_file,
      stdout, stderr, p_raised>>

\* one call of the generation component
VARIABLES
    g_pc,                  \* "idle", "call", "returned" or "raised"
    g_op,                  \* the method called
    g_messages,            \* parameter messages
    tag_configs,           \* TagEvaluator.tag_configs, the names of the tags
    response,              \* what self.model.generate_content does on this call
    g_called,              \* whether the external call was made
    g_prompt,              \* the conversation text of the prompt, None before
    g_stdout,              \* the lines printed to standard output
    g_returned,            \* the value returned
    g_raised               \* the exception raised, None when none

generate_vars ==
    <<g_pc, g_op, g_messages, tag_configs, response, g_called, g_prompt, g_stdout,
      g_returned, g_raised>>

\* one call of SpanBasedParser._find_span_end and the slice its caller takes
VARIABLES
    f_pc,                  \* "idle", "call", "loop" or "returned"
    f_content,             \* parameter content, a sequence of characters
    f_i,                   \* local variable i, the cursor (an index from 0)
    f_span_count,          \* local variable span_count
    f_span_end,            \* the value returned, -1 until the call returns
    f_message_content      \* parse: part[:span_end], None before and when skipped

scan_vars == <<f_pc, f_content, f_i, f_span_count, f_span_end, f_message_content>>

\* one evaluation of the comment-timestamp test
VARIABLES
    t_pc,                  \* "idle", "call" or "returned"
    t_op,                  \* "can_parse", or "has_timestamp" for the test in parse
    t_html,                \* the text tested: html_content, or line
    t_result               \* the value of the test, None before

detect_vars == <<t_pc, t_op, t_html, t_result>>

\* main: the loop over files_to_process
VARIABLES
    b_pc,                  \* "idle", "file", "tags", "process", "done" or "aborted"
    files_to_process,      \* per file, what its calls do in this run
    b_index,               \* the position of the for loop, from 1
    args_output,           \* whether args.output is given
    tag_evaluator,         \* whether a tag evaluator was loaded
    b_custom_tags,         \* local variable custom_tags, None when not set
    b_processed,           \* the calls of process_file: the position of the file,
                           \* and "returns" or "raises" (caught on line 219)
    b_raised               \* the exception that left main, None when none

batch_vars ==
    <<b_pc, files_to_process, b_index, args_output, tag_evaluator, b_custom_tags,
      b_processed, b_raised>>

vars == <<parse_vars, normalize_vars, date_vars, convert_vars, sample_vars, process_vars, generate_vars, scan_vars, detect_vars, batch_vars>>

\* the value of an absent optional (Python's None); no text is this lexeme
None == <<"None">>

\* nothing has been written to the output path
NotWritten == <<"NotWritten">>

\* the components at rest
IdleParse ==
    /\ html_content = <<>>
    /\ pc = "idle"
    /\ parser = ""
    /\ lines = <<>>
    /\ parts = <<>>
    /\ idx = 1
    /\ current_message_html = <<>>
    /\ flushed_blocks = <<>>
    /\ messages = <<>>

IdleNormalize ==
    /\ n_pc = "idle"
    /\ font_match = <<>>
    /\ full_content = <<>>

IdleDate ==
    /\ d_pc = "idle"
    /\ filename = <<>>
    /\ extracted = None

IdleConvert ==
    /\ c_pc = "idle"
    /\ c_messages = <<>>
    /\ conversation_date = None
    /\ group_consecutive = TRUE
    /\ description = None
    /\ tags = None
    /\ markdown = <<>>

IdleSample ==
    /\ s_pc = "idle"
    /\ conversation_content = <<>>
    /\ max_messages = 0
    /\ sampled = <<>>

IdleProcess ==
    /\ p_pc = "idle"
    /\ input_name = <<>>
    /\ p_description = None
    /\ custom_tags = None
    /\ participants = None
    /\ p_date = None
    /\ output_file = NotWritten
    /\ stdout = <<>>
    /\ stderr = <<>>
    /\ p_raised = None

IdleScan ==
    /\ f_pc = "idle"
    /\ f_content = <<>>
    /\ f_i = 0
    /\ f_span_count = 0
    /\ f_span_end = -1
    /\ f_message_content = None

IdleDetect ==
    /\ t_pc = "idle"
    /\ t_op = ""
    /\ t_html = <<>>
    /\ t_result = None

IdleBatch ==
    /\ b_pc = "idle"
    /\ files_to_process = <<>>
    /\ b_index = 1
    /\ args_output = FALSE
    /\ tag_evaluator = FALSE
    /\ b_custom_tags = None
    /\ b_processed = <<>>
    /\ b_raised = None

IdleGenerate ==
    /\ g_pc = "idle"
    /\ g_op = ""
    /\ g_messages = <<>>
    /\ tag_configs = <<>>
    /\ response = None
    /\ g_called = FALSE
    /\ g_prompt = None
    /\ g_stdout = <<>>
    /\ g_returned = None
    /\ g_raised = None

Init ==
    /\ html_content \in Documents
    /\ pc = "start"
    /\ parser = ""
    /\ lines = <<>>
    /\ parts = <<>>
    /\ idx = 1
    /\ current_message_html = <<>>
    /\ flushed_blocks = <<>>
    /\ messages = <<>>
    /\ IdleNormalize /\ IdleDate /\ IdleConvert /\ IdleSample /\ IdleProcess /\ IdleGenerate /\ IdleScan /\ IdleDetect /\ IdleBatch

\* AIMParser.parse: the factory picks the parser, the parser splits the text
GetParser ==
    /\ pc = "start"
    /\ parser' = GetParserClass(html_content)
    /\ IF parser' = "SpanBasedParser"
       THEN /\ pc' = "span"
            /\ parts' = Tail(Split(html_content, SPANW))
            /\ lines' = lines
       ELSE /\ pc' = "comment"
            /\ lines' = Split(html_content, "<BR>")
            /\ parts' = parts
    /\ UNCHANGED <<html_content, idx, current_message_html, flushed_blocks, messages>>
    /\ UNCHANGED <<normalize_vars, date_vars, convert_vars, sample_vars, generate_vars, process_vars, scan_vars, detect_vars, batch_vars>>

\* CommentBasedParser.parse, loop body: 'if not line.strip(): continue'
CommentSkipBlank ==
    /\ pc = "comment"
    /\ idx <= Len(lines)
    /\ Strip(lines[idx]) = <<>>
    /\ idx' = idx + 1
    /\ UNCHANGED <<html_content, pc, parser, lines, parts, current_message_html, flushed_blocks, messages>>
    /\ UNCHANGED <<normalize_vars, date_vars, convert_vars, sample_vars, generate_vars, process_vars, scan_vars, detect_vars, batch_vars>>

\* loop body, control: the for loop moves on from a line with a timestamp
\* met while a block is being built
CommentFlushLoop ==
    /\ pc = "comment"
    /\ idx <= Len(lines)
    /\ Strip(lines[idx]) # <<>>
    /\ CommentCanParse(lines[idx]) /\ current_message_html # <<>>
    /\ idx' = idx + 1
    /\ UNCHANGED pc

\* loop body: a line with a timestamp flushes the block built so far
CommentFlush ==
    /\ CommentFlushLoop
    /\ messages' = ProcessMessageLine(current_message_html, messages)
    /\ flushed_blocks' = Append(flushed_blocks, current_message_html)
    /\ current_message_html' = lines[idx]
    /\ UNCHANGED <<html_content, parser, lines, parts>>
    /\ UNCHANGED <<normalize_vars, date_vars, convert_vars, sample_vars, generate_vars, process_vars, scan_vars, detect_vars, batch_vars>>

\* loop body: any other line replaces the block built so far
CommentAccumulate_Replace ==
    /\ pc = "comment"
    /\ idx <= Len(lines)
    /\ Strip(lines[idx]) # <<>>
    /\ ~(CommentCanParse(lines[idx]) /\ current_message_html # <<>>)
    /\ current_message_html' = lines[idx]
    /\ idx' = idx + 1
    /\ UNCHANGED <<html_content, pc, parser, lines, parts, flushed_blocks, messages>>
    /\ UNCHANGED <<normalize_vars, date_vars, convert_vars, sample_vars, generate_vars, process_vars, scan_vars, detect_vars, batch_vars>>

\* loop body: any other line is added to the block
CommentAccumulate ==
    /\ pc = "comment"
    /\ idx <= Len(lines)
    /\ Strip(lines[idx]) # <<>>
    /\ ~(CommentCanParse(lines[idx]) /\ current_message_html # <<>>)
    /\ current_message_html' = current_message_html \o lines[idx]
    /\ idx' = idx + 1
    /\ UNCHANGED <<html_content, pc, parser, lines, parts, flushed_blocks, messages>>
    /\ UNCHANGED <<normalize_vars, date_vars, convert_vars, sample_vars, generate_vars, process_vars, scan_vars, detect_vars, batch_vars>>

\* after the loop, control: the for loop is over and parse returns
CommentReturnLoop ==
    /\ pc = "comment"
    /\ idx > Len(lines)
    /\ pc' = "done"
    /\ UNCHANGED idx

\* after the loop: the last block is processed and messages returned
CommentReturn ==
    /\ CommentReturnLoop
    /\ messages' = IF current_message_html # <<>>
                   THEN ProcessMessageLine(current_message_html, messages)
                   ELSE messages
    /\ flushed_blocks' = IF current_message_html # <<>>
                  THEN Append(flushed_blocks, current_message_html)
                  ELSE flushed_blocks
    /\ UNCHANGED <<html_content, parser, lines, parts, current_message_html>>
    /\ UNCHANGED <<normalize_vars, date_vars, convert_vars, sample_vars, generate_vars, process_vars, scan_vars, detect_vars, batch_vars>>

\* SpanBasedParser.parse, loop body: 'if span_end == -1: continue'
SpanSkip ==
    /\ pc = "span"
    /\ idx <= Len(parts)
    /\ FindSpanEnd(parts[idx]) = 0
    /\ idx' = idx + 1
    /\ UNCHANGED <<html_content, pc, parser, lines, parts, current_message_html, flushed_blocks, messages>>
    /\ UNCHANGED <<normalize_vars, date_vars, convert_vars, sample_vars, generate_vars, process_vars, scan_vars, detect_vars, batch_vars>>

\* loop body, control: the for loop moves on from a piece whose end was found
SpanProcessLoop ==
    /\ pc = "span"
    /\ idx <= Len(parts)
    /\ FindSpanEnd(parts[idx]) # 0
    /\ idx' = idx + 1
    /\ UNCHANGED pc

\* loop body: the slice before the matching </SPAN> is processed
SpanProcess ==
    /\ SpanProcessLoop
    /\ LET message_content == SubSeq(parts[idx], 1, FindSpanEnd(parts[idx]) - 1)
       IN  messages' = ProcessSpanMessage(message_content, messages)
    /\ UNCHANGED <<html_content, parser, lines, parts, current_message_html, flushed_blocks>>
    /\ UNCHANGED <<normalize_vars, date_vars, convert_vars, sample_vars, generate_vars, process_vars, scan_vars, detect_vars, batch_vars>>

\* after the loop: messages returned
SpanReturn ==
    /\ pc = "span"
    /\ idx > Len(parts)
    /\ pc' = "done"
    /\ UNCHANGED <<html_content, parser, lines, parts, idx, current_message_html, flushed_blocks, messages>>
    /\ UNCHANGED <<normalize_vars, date_vars, convert_vars, sample_vars, generate_vars, process_vars, scan_vars, detect_vars, batch_vars>>

Next ==
    \/ GetParser
    \/ CommentSkipBlank
    \/ CommentFlush
    \/ CommentAccumulate
    \/ CommentReturn
    \/ SpanSkip
    \/ SpanProcess
    \/ SpanReturn

Spec == Init /\ [][Next]_vars

\* ------------------------------------------------------------------------
\* What a document holds, read off the document itself
\* ------------------------------------------------------------------------

RECURSIVE SortedSeq(_)
SortedSeq(S) ==
    IF S = {} THEN <<>>
    ELSE LET m == CHOOSE x \in S : \A y \in S : x <= y
         IN  <<m>> \o SortedSeq(S \ {m})

RECURSIVE Flatten(_)
Flatten(ss) == IF ss = <<>> THEN <<>> ELSE ss[1] \o Flatten(Tail(ss))

IsSystem(m) == m.is_system_message
IsChat(m) == ~m.is_system_message

\* the pieces between line breaks that are not blank
NonBlank(ls) == {i \in 1..Len(ls) : Strip(ls[i]) # <<>>}

\* the pieces that open a block: the first one, and every one with a timestamp
BlockStarts(ls) ==
    {i \in NonBlank(ls) : (\A j \in NonBlank(ls) : i <= j) \/ CommentCanParse(ls[i])}

\* the non-blank pieces i..j, joined
RECURSIVE JoinPieces(_, _, _)
JoinPieces(ls, i, j) ==
    IF i > j THEN <<>>
    ELSE (IF i \in NonBlank(ls) THEN ls[i] ELSE <<>>) \o JoinPieces(ls, i + 1, j)

\* the block opened by piece i: up to the piece before the next opening one
BlockAt(ls, i) ==
    LET later == {j \in BlockStarts(ls) : j > i}
        last == IF later = {} THEN Len(ls)
                ELSE (CHOOSE j \in later : \A k \in later : j <= k) - 1
    IN  JoinPieces(ls, i, last)

\* the blocks of a comment-annotated document, in source order
Blocks(doc) ==
    LET ls == Split(doc, "<BR>")
        starts == SortedSeq(BlockStarts(ls))
    IN  [k \in 1..Len(starts) |-> BlockAt(ls, starts[k])]

\* nesting depth behind lexeme k of a wrapper piece
Depth(piece, k) ==
    1 + Cardinality({j \in 1..k : piece[j] = "<SPAN>"})
      - Cardinality({j \in 1..k : piece[j] = "</SPAN>"})

\* the wrapper of the piece is closed somewhere
Terminated(piece) == \E k \in 1..Len(piece) : piece[k] = "</SPAN>" /\ Depth(piece, k) = 0

\* the text of a terminated wrapper: up to the first close at depth zero
Slice(piece) ==
    LET k == CHOOSE k \in 1..Len(piece) :
                 /\ piece[k] = "</SPAN>" /\ Depth(piece, k) = 0
                 /\ \A j \in 1..(k - 1) : ~(piece[j] = "</SPAN>" /\ Depth(piece, j) = 0)
    IN  SubSeq(piece, 1, k - 1)

\* the pieces behind each wrapper-opening marker, in source order
Wrappers(doc) == Tail(Split(doc, SPANW))

\* the slices of the terminated wrappers, in source order
Slices(doc) ==
    LET ws == SelectSeq(Wrappers(doc), Terminated)
    IN  [k \in 1..Len(ws) |-> Slice(ws[k])]

\* a sign-off notice can be read in the text
HasSignOff(u) == Contains(u, SIGNED) /\ SignOffMatches(u)

\* ------------------------------------------------------------------------
\* C3: the factory returns the nested-markup parser exactly when the text
\* holds the wrapper-opening marker, and the comment-annotated parser for
\* every other text, also one without any marker; it always returns one.
\* ------------------------------------------------------------------------
C3_FactorySelectsByWrapperMarker ==
    pc # "start" =>
        /\ parser \in {"SpanBasedParser", "CommentBasedParser"}
        /\ (parser = "SpanBasedParser") <=> Contains(html_content, SPANW)
        /\ (parser = "CommentBasedParser") <=> ~Contains(html_content, SPANW)

\* a text with both markers went to the nested-markup parser
C3_Witness ==
    /\ pc = "done"
    /\ parser = "SpanBasedParser"
    /\ Contains(html_content, "<!--(") /\ Contains(html_content, ")-->")

\* the sender and the timestamp of every header of a comment-annotated
\* document, in source order
DocHeaders(doc) ==
    LET fs == SortedSeq({f \in 1..Len(doc) : \E b \in 1..Len(doc) : CommentHeaderAt(doc, b, f)})
    IN  [k \in 1..Len(fs) |->
            LET c == FirstLT(doc, fs[k] + 1)
                r == FirstRP(doc, c + 1)
            IN  <<Strip(SubSeq(doc, fs[k] + 1, c - 1)), Strip(SubSeq(doc, c + 1, r - 1))>>]

\* the sender and the timestamp of the messages that are not system messages
ChatHeaders(msgs) ==
    LET chat == SelectSeq(msgs, IsChat)
    IN  [k \in 1..Len(chat) |-> <<chat[k].sender, chat[k].timestamp>>]

\* the text of all the containers behind the header of a block, joined
C1_Text(b) ==
    LET cs == FontMatches(SubSeq(b, Find(b, "</B>", 1), Len(b)))
    IN  StripLeadingColons(Flatten([k \in 1..Len(cs) |-> StripTags(cs[k])]))

\* the chat message a block stands for, if any
C1_Expected(b) ==
    IF ~HasSignOff(b) /\ CommentHeaderMatches(b) /\ Strip(C1_Text(b)) # <<>>
    THEN <<Message(Strip(CommentHeaderGroups(b).sender), Strip(CommentHeaderGroups(b).timestamp),
                   Normalize(C1_Text(b)), FALSE)>>
    ELSE <<>>

WrapperHeaders(doc) ==
    LET hs == SelectSeq(Slices(doc), LAMBDA s : SpanSenderMatch(s).ok)
    IN  [k \in 1..Len(hs) |-> <<Strip(SpanSenderMatch(hs[k]).g.sender),
                                 Strip(SpanSenderMatch(hs[k]).g.timestamp)>>]

\* the chat message a wrapper slice stands for, if any: its content is the
\* text of the first container that qualifies
C2_Expected(s) ==
    LET fm == SpanFontMatches(s)
        q == {k \in 1..Len(fm) : Qualifies(fm[k])}
    IN  IF ~HasSignOff(s) /\ SpanSenderMatch(s).ok /\ q # {}
        THEN LET first == CHOOSE k \in q : \A j \in q : k <= j
                 text == Normalize(Strip(StripTags(fm[first])))
             IN  IF text = <<>> THEN <<>>
                 ELSE <<Message(Strip(SpanSenderMatch(s).g.sender),
                                Strip(SpanSenderMatch(s).g.timestamp), text, FALSE)>>
        ELSE <<>>

\* ------------------------------------------------------------------------
\* C2 as stated: the nested-markup parser returns one Message per
\* terminated wrapper whose header matches variant (a) or (b), in wrapper
\* order, with the sender and the timestamp of that header.
\* ------------------------------------------------------------------------
C2_OneMessagePerWrapper ==
    (pc = "done" /\ parser = "SpanBasedParser") =>
        ChatHeaders(messages) = WrapperHeaders(html_content)

\* ------------------------------------------------------------------------
\* C2 as amended: the nested-markup parser returns one chat Message per
\* terminated wrapper that has a header of variant (a) or (b), holds no
\* sign-off notice and has a qualifying container whose first one is not
\* empty once normalized, in wrapper order, with the header's sender and
\* timestamp and the normalized text of that first qualifying container;
\* any other wrapper yields no chat Message.
\* ------------------------------------------------------------------------
C2_FirstQualifyingContainer ==
    (pc = "done" /\ parser = "SpanBasedParser") =>
        SelectSeq(messages, IsChat) =
            Flatten([k \in 1..Len(Slices(html_content)) |-> C2_Expected(Slices(html_content)[k])])

\* a wrapper whose content is not its first container that qualifies alone,
\* with both header variants in the document
C2_Witness ==
    /\ pc = "done" /\ parser = "SpanBasedParser"
    /\ Len(SelectSeq(messages, IsChat)) = 2
    /\ \E k \in 1..Len(Slices(html_content)) :
           Cardinality({j \in 1..Len(SpanFontMatches(Slices(html_content)[k])) :
                           Qualifies(SpanFontMatches(Slices(html_content)[k])[j])}) > 1
    /\ \E k \in 1..Len(Slices(html_content)) :
           /\ \A f \in 1..Len(Slices(html_content)[k]) : ~SpanHeader1At(Slices(html_content)[k], f)
           /\ C2_Expected(Slices(html_content)[k]) # <<>>

\* the blocks or wrapper slices the chosen parser classifies, in source order
Units ==
    IF parser = "SpanBasedParser" THEN Slices(html_content) ELSE Blocks(html_content)

\* the unit has a sender/timestamp header the chosen parser recognises
UnitHasHeader(u) ==
    IF parser = "SpanBasedParser" THEN SpanSenderMatch(u).ok ELSE CommentHeaderMatches(u)

\* the sender named by the header of the unit, trimmed
UnitSender(u) ==
    IF parser = "SpanBasedParser" THEN Strip(SpanSenderMatch(u).g.sender)
    ELSE Strip(CommentHeaderGroups(u).sender)

\* the timestamp of the header of the unit, trimmed
UnitTimestamp(u) ==
    IF parser = "SpanBasedParser" THEN Strip(SpanSenderMatch(u).g.timestamp)
    ELSE Strip(CommentHeaderGroups(u).timestamp)

\* the chat message of the unit, if any
UnitChat(u) == IF parser = "SpanBasedParser" THEN C2_Expected(u) ELSE C1_Expected(u)

\* the place of every 'signed off at' notice of a document
SignOffNotices(doc) ==
    {q \in 1..Len(doc) : \E p \in 1..Len(doc) : SignOffAt(doc, p, q)}

\* the System message of a sign-off notice with the given text
SignOffMessage(text) == Message(<<"System">>, <<>>, text, TRUE)

\* ------------------------------------------------------------------------
\* C4 as stated: every sign-off notice of a document, wherever it stands and
\* in either dialect, yields a Message with sender "System", no timestamp,
\* is_system_message true and the notice as content.
\* ------------------------------------------------------------------------
C4_EverySignOffYieldsMessage ==
    pc = "done" =>
        /\ \A i \in 1..Len(messages) :
               IsSystem(messages[i]) =>
                   messages[i] = SignOffMessage(messages[i].content)
        /\ Len(SelectSeq(messages, IsSystem)) = Cardinality(SignOffNotices(html_content))

\* ------------------------------------------------------------------------
\* C4 as amended: in either dialect every block (comment-annotated) or
\* terminated wrapper slice (nested-markup) in which the sign-off pattern
\* matches yields exactly one Message with sender "System", no timestamp,
\* is_system_message true and the trimmed text of the first match as
\* content, in source order; no other text yields a system message.
\* ------------------------------------------------------------------------
C4_SignOffPerUnit ==
    pc = "done" =>
        /\ SelectSeq(messages, IsSystem) =
               Flatten([k \in 1..Len(Units) |->
                           IF HasSignOff(Units[k])
                           THEN <<SignOffMessage(Strip(SignOffGroup(Units[k])))>>
                           ELSE <<>>])
        /\ \A i \in 1..Len(messages) :
               IsSystem(messages[i]) =>
                   /\ messages[i] = SignOffMessage(messages[i].content)
                   /\ Contains(messages[i].content, SIGNED)
                   /\ messages[i].content = Strip(messages[i].content)
                   /\ \A j \in 1..Len(messages[i].content) : messages[i].content[j] \notin Tags

\* a sign-off notice in the block of a chat header yielded the System message
C4_Witness ==
    /\ pc = "done"
    /\ \E k \in 1..Len(Units) : HasSignOff(Units[k]) /\ UnitHasHeader(Units[k])
    /\ \E i \in 1..Len(messages) :
           /\ messages[i].sender = <<"System">>
           /\ messages[i].timestamp = <<>>
           /\ IsSystem(messages[i])
           /\ Contains(messages[i].content, SIGNED)

\* the sender prefix of an away-message reply
AutoPrefix == "Auto response from "

\* the header of the unit names an away-message reply
IsAutoResponseUnit(u) ==
    UnitHasHeader(u) /\ UnitSender(u) # <<>> /\ UnitSender(u)[1] = AutoPrefix

\* ------------------------------------------------------------------------
\* C5: a message whose header sender begins with "Auto response from " is
\* returned with the prefix stripped from the sender, its timestamp and
\* content, and is_system_message true; every other message of a header
\* has is_system_message false.
\* ------------------------------------------------------------------------
C5_AutoResponseStripped ==
    pc = "done" =>
        \A k \in 1..Len(Units) :
            (~HasSignOff(Units[k]) /\ UnitChat(Units[k]) # <<>>) =>
                \E i \in 1..Len(messages) :
                    /\ messages[i].timestamp = UnitTimestamp(Units[k])
                    /\ messages[i].content = UnitChat(Units[k])[1].content
                    /\ IF IsAutoResponseUnit(Units[k])
                       THEN /\ messages[i].sender = Tail(UnitSender(Units[k]))
                            /\ messages[i].is_system_message
                       ELSE /\ messages[i].sender = UnitSender(Units[k])
                            /\ ~messages[i].is_system_message

\* the phrase of a session-concluded marker
SESSION == "Session concluded at"

\* '<HR><B>Session concluded at TIME</B><HR>' stands at lexeme p and ends at e
SessionMarkerAt(doc, p, e) ==
    /\ p + 3 < e /\ e < Len(doc)
    /\ doc[p] = "<HR>" /\ doc[p + 1] = "<B>" /\ doc[p + 2] = SESSION
    /\ \A j \in (p + 3)..(e - 1) : ~HasLT(doc[j])
    /\ doc[e] = "</B>" /\ doc[e + 1] = "<HR>"

\* the phrases of the session-concluded markers of a document, in source order
SessionPhrases(doc) ==
    LET ps == SortedSeq({p \in 1..Len(doc) : \E e \in 1..Len(doc) : SessionMarkerAt(doc, p, e)})
    IN  [k \in 1..Len(ps) |->
            SubSeq(doc, ps[k] + 2,
                   (CHOOSE e \in 1..Len(doc) : SessionMarkerAt(doc, ps[k], e)) - 1)]

\* the message is the System message of a session-concluded marker
IsSessionConcluded(m) ==
    /\ m.sender = <<"System">> /\ m.timestamp = <<>> /\ m.is_system_message
    /\ m.content # <<>> /\ m.content[1] = SESSION

\* ------------------------------------------------------------------------
\* C6: every session-concluded marker of a document becomes one System
\* Message with the phrase as content, the markers keeping their order.
\* ------------------------------------------------------------------------
C6_SessionConcludedExtracted ==
    pc = "done" =>
        LET sc == SelectSeq(messages, IsSessionConcluded)
        IN  [k \in 1..Len(sc) |-> sc[k].content] = SessionPhrases(html_content)

\* the message is the System message of a sign-off notice
IsSignOff(m) ==
    m.sender = <<"System">> /\ Contains(m.content, SIGNED) /\ ~IsSessionConcluded(m)

\* the message comes from an "Auto response from X" header
IsAutoResponse(m) ==
    /\ ~IsSignOff(m) /\ ~IsSessionConcluded(m)
    /\ \E k \in 1..Len(Units) :
           /\ IsAutoResponseUnit(Units[k]) /\ UnitChat(Units[k]) # <<>>
           /\ m.timestamp = UnitTimestamp(Units[k])
           /\ m.content = UnitChat(Units[k])[1].content
           /\ m.sender \in {UnitSender(Units[k]), Tail(UnitSender(Units[k]))}

\* ------------------------------------------------------------------------
\* C7: is_system_message is true exactly for the sign-off, auto-response
\* and session-concluded messages, and no message is of two of these kinds.
\* ------------------------------------------------------------------------
C7_SystemIsUnionOfSubtypes ==
    \A i \in 1..Len(messages) :
        /\ messages[i].is_system_message <=>
               (IsSignOff(messages[i]) \/ IsAutoResponse(messages[i])
                    \/ IsSessionConcluded(messages[i]))
        /\ ~(IsAutoResponse(messages[i]) /\ IsSessionConcluded(messages[i]))

\* ------------------------------------------------------------------------
\* C8: no Message returned by parse has empty content.
\* ------------------------------------------------------------------------
C8_ContentNeverEmpty ==
    \A i \in 1..Len(messages) : messages[i].content # <<>>

\* the unit yields a Message
ValidUnit(u) == HasSignOff(u) \/ UnitChat(u) # <<>>

\* ------------------------------------------------------------------------
\* C9: parse has no failure state; a block or slice with neither header
\* nor sign-off notice yields nothing, and every other block or slice of the
\* document still yields its Message.
\* ------------------------------------------------------------------------
C9_MalformedDropped ==
    /\ pc \in {"start", "comment", "span", "done"}
    /\ pc = "done" =>
           /\ Len(messages) = Cardinality({k \in 1..Len(Units) : ValidUnit(Units[k])})
           /\ \A k \in 1..Len(Units) :
                  UnitChat(Units[k]) # <<>> =>
                      \E i \in 1..Len(messages) : messages[i] = UnitChat(Units[k])[1]

\* a block or slice without header was dropped behind one that gave a message
C9_Witness ==
    /\ pc = "done"
    /\ messages # <<>>
    /\ \E k \in 1..Len(Units) : \E j \in 1..Len(Units) :
           /\ k < j
           /\ ValidUnit(Units[k])
           /\ ~UnitHasHeader(Units[j]) /\ ~HasSignOff(Units[j])

\* ------------------------------------------------------------------------
\* C10: in the nested-markup parser a wrapper piece whose nesting counter
\* never returns to zero yields no Message, and the loop goes on: the
\* messages are those of the terminated wrappers met so far.
\* ------------------------------------------------------------------------
C10_UnterminatedSkipped ==
    (pc \in {"span", "done"} /\ parser = "SpanBasedParser") =>
        messages =
            Flatten([k \in 1..(idx - 1) |->
                        IF Terminated(parts[k])
                        THEN ProcessSpanMessage(Slice(parts[k]), <<>>)
                        ELSE <<>>])

\* a wrapper that is never closed, followed by one that yielded a Message
C10_Witness ==
    /\ pc = "done" /\ parser = "SpanBasedParser"
    /\ messages # <<>>
    /\ \E j \in 1..Len(parts) : \E k \in 1..Len(parts) :
           /\ j < k
           /\ ~Terminated(parts[j])
           /\ Terminated(parts[k])
           /\ ProcessSpanMessage(Slice(parts[k]), <<>>) # <<>>

\* ------------------------------------------------------------------------
\* The clean-up of one extracted text, on its own
\* ------------------------------------------------------------------------

\* the longest text of a container
MaxText == 5

\* what a container can hold: words, blanks, line ends, an encoded
\* ampersand, the tail of an entity name, a tag
TextAlphabet == {"hi", " ", "\n", "&amp;", "quot;", "<I>"}

RECURSIVE TextsOf(_)
TextsOf(n) ==
    IF n = 0 THEN {<<>>}
    ELSE {t \o <<x>> : t \in TextsOf(n - 1), x \in TextAlphabet}

Texts == UNION {TextsOf(n) : n \in 1..MaxText}

InitNormalize ==
    /\ font_match \in Texts
    /\ n_pc = "raw"
    /\ full_content = <<>>
    /\ IdleParse /\ IdleDate /\ IdleConvert /\ IdleSample /\ IdleProcess /\ IdleGenerate /\ IdleScan /\ IdleDetect /\ IdleBatch

\* CommentBasedParser._process_message_line, lines 116-136, one container
CleanContent ==
    /\ n_pc = "raw"
    /\ LET combined_content == StripLeadingColons(CombineContent(<<font_match>>))
       IN  IF Strip(combined_content) # <<>>
           THEN /\ full_content' = Normalize(combined_content)
                /\ n_pc' = "message"
           ELSE /\ full_content' = full_content
                /\ n_pc' = "dropped"
    /\ UNCHANGED font_match
    /\ UNCHANGED <<parse_vars, date_vars, convert_vars, sample_vars, process_vars, generate_vars, scan_vars, detect_vars, batch_vars>>

\* SpanBasedParser._extract_message_content, lines 248-265, one container
ExtractContent ==
    /\ n_pc = "raw"
    /\ IF FirstContent(<<font_match>>) # <<>>
       THEN /\ full_content' = FirstContent(<<font_match>>)
            /\ n_pc' = "message"
       ELSE /\ full_content' = full_content
            /\ n_pc' = "dropped"
    /\ UNCHANGED font_match
    /\ UNCHANGED <<parse_vars, date_vars, convert_vars, sample_vars, process_vars, generate_vars, scan_vars, detect_vars, batch_vars>>

NextNormalize ==
    \/ CleanContent
    \/ ExtractContent

SpecNormalize == InitNormalize /\ [][NextNormalize]_vars

\* the normalizer applied once more: tags out, entities decoded, white
\* space collapsed and trimmed
Renormalize(content) == Normalize(StripTags(content))

\* the white-space steps of the normalizer alone
NormalizeSpace(content) == Strip(CollapseSpaces(CollapseNewlines(content)))

\* the content holds a character that starts an entity or a tag
HoldsMarkup(content) ==
    \E k \in 1..Len(content) : content[k] = "&" \/ HasLT(content[k])

\* C11 as stated: normalizing a normalized content once more returns the
\* same content, for every extracted text.
C11_NormalizeIdempotent ==
    n_pc = "message" => Renormalize(full_content) = full_content

\* C11: normalizing a normalized content once more returns the same content
\* whenever that content holds no '&' and no '<'; the white-space steps
\* return every normalized content unchanged.  (A text holding &amp;quot;
\* is normalized to &quot; and this, normalized again, to a quotation mark.)
C11_IdempotentWithoutMarkup ==
    n_pc = "message" =>
        /\ NormalizeSpace(full_content) = full_content
        /\ ~HoldsMarkup(full_content) => Renormalize(full_content) = full_content
        /\ Renormalize(full_content) # full_content => Contains(font_match, "&amp;")

\* a text with a run of three blanks was normalized to one with two
C11_Witness ==
    /\ n_pc = "message"
    /\ font_match = <<"hi", " ", " ", " ", "hi">>
    /\ full_content = <<"hi", " ", " ", "hi">>

\* ------------------------------------------------------------------------
\* C12
\* ------------------------------------------------------------------------

\* the text holds three blanks in a row
HasBlankRun3(c) ==
    \E k \in 1..(Len(c) - 2) : c[k] = " " /\ c[k + 1] = " " /\ c[k + 2] = " "

\* C12: the content of every message that parse derives from a header holds
\* no line end, no run of three or more blanks and no white space at either
\* end.
C12_ContentWhitespaceNormalized ==
    \A i \in 1..Len(messages) :
        ~messages[i].is_system_message =>
            LET c == messages[i].content
            IN  /\ ~Contains(c, "\n")
                /\ ~HasBlankRun3(c)
                /\ c # <<>> => ~IsSpace(c[1]) /\ ~IsSpace(c[Len(c)])

\* a body with a run of blanks around a line end came out with one blank,
\* a body with a run of four blanks and three at its end with two and none
C12_Witness ==
    /\ pc = "done"
    /\ html_content = LineCommentLong \o LineCommentSpaces
    /\ Len(messages) = 2
    /\ messages[1].content = <<"\"", "hi", " ", "there">>
    /\ messages[2].content = <<"hi", " ", " ", "there">>

\* ------------------------------------------------------------------------
\* BaseAIMParser.extract_date_from_filename
\* ------------------------------------------------------------------------

\* a file name is a sequence of characters
Digits == <<"0", "1", "2", "3", "4", "5", "6", "7", "8", "9">>

\* \d
IsDigit(c) == \E i \in 1..Len(Digits) : Digits[i] = c

\* int() of one digit
DigitValue(c) == (CHOOSE i \in 1..Len(Digits) : Digits[i] = c) - 1

\* int() of a run of digits
RECURSIVE Number(_)
Number(s) ==
    IF s = <<>> THEN 0 ELSE 10 * Number(SubSeq(s, 1, Len(s) - 1)) + DigitValue(s[Len(s)])

\* \d{4}-\d{2}-\d{2} matches the ten characters from position i on
DatePatternAt(name, i) ==
    /\ i + 9 <= Len(name)
    /\ \A k \in {0, 1, 2, 3, 5, 6, 8, 9} : IsDigit(name[i + k])
    /\ name[i + 4] = "-"
    /\ name[i + 7] = "-"

\* a search that yields the rightmost match
DateSearch_Rightmost(name) ==
    IF \E i \in 1..Len(name) : DatePatternAt(name, i)
    THEN CHOOSE i \in 1..Len(name) :
             DatePatternAt(name, i) /\ \A j \in (i + 1)..Len(name) : ~DatePatternAt(name, j)
    ELSE 0

\* re.search: the leftmost match, 0 when there is none
DateSearch(name) ==
    IF \E i \in 1..Len(name) : DatePatternAt(name, i)
    THEN CHOOSE i \in 1..Len(name) :
             DatePatternAt(name, i) /\ \A j \in 1..(i - 1) : ~DatePatternAt(name, j)
    ELSE 0

\* the proleptic Gregorian calendar of datetime
IsLeap(year) == year % 4 = 0 /\ (year % 100 # 0 \/ year % 400 = 0)

DaysInMonth(year, month) ==
    IF month = 2 THEN (IF IsLeap(year) THEN 29 ELSE 28)
    ELSE IF month \in {4, 6, 9, 11} THEN 30 ELSE 31

\* datetime.strptime(date_str, '%Y-%m-%d') on ten characters dddd-dd-dd:
\* the datetime, or None where strptime raises ValueError
Strptime(date_str) ==
    LET year  == Number(SubSeq(date_str, 1, 4))
        month == Number(SubSeq(date_str, 6, 7))
        day   == Number(SubSeq(date_str, 9, 10))
    IN  IF /\ year >= 1
           /\ month \in 1..12
           /\ day >= 1
           /\ day <= DaysInMonth(year, month)
        THEN [year |-> year, month |-> month, day |-> day]
        ELSE None

\* the datetime returned, or None where ValueError is raised
ExtractDateFromFilename(name) ==
    LET date_match == DateSearch(name)
    IN  IF date_match # 0
        THEN Strptime(SubSeq(name, date_match, date_match + 9))
        ELSE None

\* the pieces file names are made of
MaxNameParts == 2

NameParts ==
    { <<"2", "0", "0", "4", "-", "0", "5", "-", "1", "8">>,
      <<"2", "0", "0", "4", "-", "1", "3", "-", "0", "1">>,
      <<"2", "0", "0", "4", "-", "0", "2", "-", "2", "9">>,
      <<"1", "9", "0", "0", "-", "0", "2", "-", "2", "9">>,
      <<"2", "0", "0", "4", "-", "0", "4", "-", "3", "1">>,
      <<"2", "0", "0", "4", "-", "5", "-", "1", "8">>,
      <<"1">>,
      <<"-">>,
      <<"n", "o", "t", "e", "s", ".", "h", "t", "m">> }

RECURSIVE NamesOf(_)
NamesOf(n) ==
    IF n = 0 THEN {<<>>}
    ELSE {d \o q : d \in NamesOf(n - 1), q \in NameParts}

Filenames == UNION {NamesOf(n) : n \in 1..MaxNameParts}

InitDate ==
    /\ filename \in Filenames
    /\ d_pc = "call"
    /\ extracted = None
    /\ IdleParse /\ IdleNormalize /\ IdleConvert /\ IdleSample /\ IdleProcess /\ IdleGenerate /\ IdleScan /\ IdleDetect /\ IdleBatch

\* the call returns the datetime
ExtractDateReturn ==
    /\ d_pc = "call"
    /\ None # ExtractDateFromFilename(filename)
    /\ extracted' = ExtractDateFromFilename(filename)
    /\ d_pc' = "returned"
    /\ UNCHANGED filename
    /\ UNCHANGED <<parse_vars, normalize_vars, convert_vars, sample_vars, process_vars, generate_vars, scan_vars, detect_vars, batch_vars>>

\* the call raises ValueError
ExtractDateRaise ==
    /\ d_pc = "call"
    /\ None = ExtractDateFromFilename(filename)
    /\ d_pc' = "raised"
    /\ UNCHANGED <<filename, extracted>>
    /\ UNCHANGED <<parse_vars, normalize_vars, convert_vars, sample_vars, process_vars, generate_vars, scan_vars, detect_vars, batch_vars>>

NextDate ==
    \/ ExtractDateReturn
    \/ ExtractDateRaise

SpecDate == InitDate /\ [][NextDate]_vars

\* ------------------------------------------------------------------------
\* C13
\* ------------------------------------------------------------------------

\* the text YYYY-MM-DD, read as year, month and day
DateDenoted(text) ==
    [year |-> Number(SubSeq(text, 1, 4)),
     month |-> Number(SubSeq(text, 6, 7)),
     day |-> Number(SubSeq(text, 9, 10))]

\* the date is one of the calendar
IsCalendarDate(d) ==
    /\ d.year >= 1
    /\ d.month >= 1 /\ d.month <= 12
    /\ d.day >= 1
    /\ d.day <= (IF d.month = 2
                 THEN (IF d.year % 4 = 0 /\ (d.year % 100 # 0 \/ d.year % 400 = 0) THEN 29 ELSE 28)
                 ELSE IF d.month \in {4, 6, 9, 11} THEN 30 ELSE 31)

\* the positions where a YYYY-MM-DD substring of the name starts
DatePositions(name) == {i \in 1..Len(name) : DatePatternAt(name, i)}

\* the valid dates denoted by the YYYY-MM-DD substrings of the name
ValidDatesIn(name) ==
    {d \in {DateDenoted(SubSeq(name, i, i + 9)) : i \in DatePositions(name)} : IsCalendarDate(d)}

\* the leftmost YYYY-MM-DD substring of a name that holds one
LeftmostDateText(name) ==
    LET first == CHOOSE i \in DatePositions(name) : \A j \in DatePositions(name) : i <= j
    IN  SubSeq(name, first, first + 9)

\* C13 as stated: the call returns the date of a YYYY-MM-DD substring
\* whenever the name holds such a substring with a valid date, and raises
\* ValueError exactly when the name holds none.
C13_DateOfAnyValidSubstring ==
    /\ d_pc = "returned" => extracted \in ValidDatesIn(filename)
    /\ d_pc = "raised" => ValidDatesIn(filename) = {}

\* C13: the call returns the date denoted by the leftmost YYYY-MM-DD
\* substring of the name when that substring is a calendar date, and raises
\* ValueError exactly when the name holds no such substring or the leftmost
\* one is not a calendar date.
C13_DateOfLeftmostSubstring ==
    /\ d_pc = "returned" =>
          /\ DatePositions(filename) # {}
          /\ IsCalendarDate(DateDenoted(LeftmostDateText(filename)))
          /\ extracted = DateDenoted(LeftmostDateText(filename))
    /\ d_pc = "raised" =>
          \/ DatePositions(filename) = {}
          \/ ~IsCalendarDate(DateDenoted(LeftmostDateText(filename)))

\* a date behind an extra digit was returned
C13_Witness ==
    /\ d_pc = "returned"
    /\ filename = <<"1", "2", "0", "0", "4", "-", "0", "2", "-", "2", "9">>
    /\ extracted = [year |-> 2004, month |-> 2, day |-> 29]

\* ------------------------------------------------------------------------
\* MarkdownConverter
\* ------------------------------------------------------------------------

\* self.escape_chars; "BACKTICK" stands for the grave accent
escape_chars == {"*", "_", "BACKTICK", "[", "]"}

\* self.group_threshold_minutes
group_threshold_minutes == 2

\* _escape_markdown: a backslash before every character of escape_chars
EscapeMarkdown(text) ==
    [k \in 1..Len(text) |-> IF text[k] \in escape_chars THEN "\\" \o text[k] ELSE text[k]]

\* a time stamp is a sequence of characters; \d{1,2}: at its head: the
\* position of the colon, 0 when the head is something else
HourColon(ts) ==
    IF Len(ts) >= 2 /\ IsDigit(ts[1]) /\ ts[2] = ":" THEN 2
    ELSE IF Len(ts) >= 3 /\ IsDigit(ts[1]) /\ IsDigit(ts[2]) /\ ts[3] = ":" THEN 3
    ELSE 0

\* re.match(r'\d{1,2}:\d{2}:\d{2} [AP]M', timestamp_str)
LongTimeMatches(ts) ==
    LET c == HourColon(ts)
    IN  /\ c # 0
        /\ Len(ts) >= c + 8
        /\ IsDigit(ts[c + 1]) /\ IsDigit(ts[c + 2])
        /\ ts[c + 3] = ":"
        /\ IsDigit(ts[c + 4]) /\ IsDigit(ts[c + 5])
        /\ ts[c + 6] = " "
        /\ ts[c + 7] \in {"A", "P"}
        /\ ts[c + 8] = "M"

\* re.match(r'\d{1,2}:\d{2} [AP]M', timestamp_str)
ShortTimeMatches(ts) ==
    LET c == HourColon(ts)
    IN  /\ c # 0
        /\ Len(ts) >= c + 5
        /\ IsDigit(ts[c + 1]) /\ IsDigit(ts[c + 2])
        /\ ts[c + 3] = " "
        /\ ts[c + 4] \in {"A", "P"}
        /\ ts[c + 5] = "M"

\* datetime.strptime(...).time() for an hour of the 12-hour clock, a minute,
\* a second and AM or PM; None where strptime raises ValueError
TimeOf(hour12, minute, second, meridiem) ==
    IF hour12 \in 1..12 /\ minute \in 0..59 /\ second \in 0..59
    THEN [hour |-> (hour12 % 12) + (IF meridiem = "P" THEN 12 ELSE 0),
          minute |-> minute, second |-> second]
    ELSE None

\* _parse_timestamp: the time object, or None
ParseTimestamp(timestamp) ==
    LET ts == Strip(timestamp)
        c  == HourColon(ts)
    IN  IF LongTimeMatches(ts)
        THEN IF Len(ts) = c + 8
             THEN TimeOf(Number(SubSeq(ts, 1, c - 1)), Number(SubSeq(ts, c + 1, c + 2)),
                         Number(SubSeq(ts, c + 4, c + 5)), ts[c + 7])
             ELSE None
        ELSE IF ShortTimeMatches(ts)
        THEN IF Len(ts) = c + 5
             THEN TimeOf(Number(SubSeq(ts, 1, c - 1)), Number(SubSeq(ts, c + 1, c + 2)),
                         0, ts[c + 4])
             ELSE None
        ELSE None

\* _time_diff_minutes works on doubles: a time is hour * 60 + minute +
\* second / 60.0, a sum with a rounded fraction F = fl(second / 60.0) that
\* is rounded once more.  The operators below give the rounding exactly.

RECURSIVE Pow2(_)
Pow2(n) == IF n = 0 THEN 1 ELSE 2 * Pow2(n - 1)

\* the exponent e of second / 60.0, 2^e <= second/60 < 2^(e+1), as -e
FractionExponent(second) ==
    CHOOSE k \in 1..6 : second * Pow2(k) >= 60 /\ second * Pow2(k - 1) < 60

\* the exponent of hour * 60 + minute + F for a whole part of at least one
MinutesExponent(whole) ==
    CHOOSE e \in 0..10 : Pow2(e) <= whole /\ whole < Pow2(e + 1)

\* F has the 53-bit mantissa n = round(second * 2^(50+k) / 15), k the
\* exponent above; 15 * n = second * 2^(50+k) + FractionCarry(second)
FractionCarry(second) ==
    LET r == (second * Pow2((50 + FractionExponent(second)) % 4)) % 15
    IN  IF r >= 8 THEN 15 - r ELSE 0 - r

\* 15 * Inverse15 = 1 modulo 2^17
Inverse15 == 61167

\* the j lowest bits of the mantissa of F, j <= 17
MantissaMod(second, j) ==
    (FractionCarry(second) * (Inverse15 % Pow2(j))) % Pow2(j)

\* fl(whole + F) - (whole + F), counted in units of the last place of F:
\* the sum keeps 53 bits, round to nearest, ties to even
RoundingError(whole, second) ==
    IF second % 15 = 0 \/ whole = 0 THEN 0
    ELSE LET j    == MinutesExponent(whole) + FractionExponent(second)
             rem  == MantissaMod(second, j)
             half == Pow2(j - 1)
             odd  == MantissaMod(second, j + 1) >= Pow2(j)
         IN  IF rem > half \/ (rem = half /\ odd) THEN Pow2(j) - rem ELSE 0 - rem

\* seconds since midnight
SecondsOfDay(t) == t.hour * 3600 + t.minute * 60 + t.second

\* 'time_diff > self.group_threshold_minutes' with time_diff the double
\* _time_diff_minutes(time1, time2).  Away from the threshold the exact
\* difference decides; at a difference of exactly the threshold the
\* roundings of the two sums decide.
TimeDiffExceeds(time1, time2) ==
    LET a  == SecondsOfDay(time1)
        b  == SecondsOfDay(time2)
        lo == IF a < b THEN time1 ELSE time2
        hi == IF a < b THEN time2 ELSE time1
        d  == IF a < b THEN b - a ELSE a - b
        diff == IF d > 12 * 3600 THEN 24 * 3600 - d ELSE d
        g  == RoundingError(hi.hour * 60 + hi.minute, hi.second)
                  - RoundingError(lo.hour * 60 + lo.minute, lo.second)
    IN  IF diff # group_threshold_minutes * 60 THEN diff > group_threshold_minutes * 60
        ELSE IF time1.second % 15 = 0 THEN FALSE
        ELSE IF d = diff
             THEN g > Pow2(FractionExponent(time1.second))
             ELSE g < 0 - Pow2(9 + FractionExponent(time1.second))

\* two decimal digits, four decimal digits
Pad2(n) == <<Digits[(n \div 10) + 1], Digits[(n % 10) + 1]>>

Pad4(n) == Pad2(n \div 100) \o Pad2(n % 100)

\* strftime("%B")
MonthNames ==
    <<"January", "February", "March", "April", "May", "June", "July",
      "August", "September", "October", "November", "December">>

\* conversation_date.strftime("%Y-%m-%d")
IsoDate(d) == Pad4(d.year) \o <<"-">> \o Pad2(d.month) \o <<"-">> \o Pad2(d.day)

\* conversation_date.strftime("%B %d, %Y")
LongDate(d) == <<MonthNames[d.month], " ">> \o Pad2(d.day) \o <<",", " ">> \o Pad4(d.year)

\* the loop 'for tag in tags_to_use'
RECURSIVE TagLines(_)
TagLines(tags_to_use) ==
    IF tags_to_use = <<>> THEN <<>>
    ELSE <<<<"  - ", tags_to_use[1]>>>> \o TagLines(Tail(tags_to_use))

\* a frontmatter whose description line does not wait for a date
FrontMatter_Undated(date, descr, tag_list) ==
    IF None = date
    THEN (IF descr # None /\ descr # <<>> THEN <<<<"description: ">> \o descr>> ELSE <<>>)
    ELSE <<<<"---">>, <<"date: ">> \o IsoDate(date)>>
         \o (IF descr # None /\ descr # <<>> THEN <<<<"description: ">> \o descr>> ELSE <<>>)
         \o <<<<"tags:">>>>
         \o TagLines(IF tag_list # None /\ tag_list # <<>> THEN tag_list ELSE <<"aim">>)
         \o <<<<"---">>, <<"# AIM Conversation - ">> \o LongDate(date) \o <<"\n">>>>

\* lines 23-41: frontmatter and title, the elements appended to output
FrontMatter(date, descr, tag_list) ==
    IF None = date THEN <<>>
    ELSE <<<<"---">>, <<"date: ">> \o IsoDate(date)>>
         \o (IF descr # None /\ descr # <<>> THEN <<<<"description: ">> \o descr>> ELSE <<>>)
         \o <<<<"tags:">>>>
         \o TagLines(IF tag_list # None /\ tag_list # <<>> THEN tag_list ELSE <<"aim">>)
         \o <<<<"---">>, <<"# AIM Conversation - ">> \o LongDate(date) \o <<"\n">>>>

\* '> ' and the escaped text, for every line of a content
RECURSIVE QuoteLines(_)
QuoteLines(content_lines) ==
    IF content_lines = <<>> THEN <<>>
    ELSE <<<<"> ">> \o EscapeMarkdown(content_lines[1])>> \o QuoteLines(Tail(content_lines))

\* the loop 'for msg in current_group_messages' of flush_group
RECURSIVE GroupLines(_)
GroupLines(group) ==
    IF group = <<>> THEN <<>>
    ELSE QuoteLines(Split(group[1].content, "\n")) \o GroupLines(Tail(group))

\* flush_group: output after the call (current_group_messages is cleared)
FlushGroup(out, group) ==
    IF group = <<>> THEN out
    ELSE out \o <<<<"**">> \o group[1].sender \o <<"** (">> \o group[1].timestamp \o <<"):">>>>
             \o GroupLines(group) \o <<<<>>>>

\* an exception
Raised(type) == <<"exception", type>>

\* lines 69-88 of the loop body: a system message
ConvertSystemMessage(st, message) ==
    LET flushed == FlushGroup(st.output, st.current_group_messages)
        closed(callout) ==
            [output |-> flushed \o callout \o <<<<>>>>,
             previous_sender |-> None, previous_timestamp |-> None,
             current_group_messages |-> <<>>, raised |-> None]
        failed == [st EXCEPT !.output = flushed, !.current_group_messages = <<>>,
                             !.raised = Raised("AttributeError")]
    IN  IF "is_auto_response" \notin DOMAIN message THEN failed
        ELSE IF message.is_auto_response
        THEN closed(<<<<"> [!QUOTE] Auto response from ">> \o message.sender \o <<" (">>
                          \o message.timestamp \o <<")">>>>
                    \o QuoteLines(Split(message.content, "\n")))
        ELSE IF "is_session_concluded" \notin DOMAIN message THEN failed
        ELSE IF message.is_session_concluded
        THEN closed(<<<<"> [!ATTENTION]", "\n", "> ">> \o message.content>>)
        ELSE closed(<<<<"> [!NOTE]", "\n", "> ">> \o message.content>>)

\* lines 89-115 of the loop body: a regular message
ConvertRegularMessage(st, message, grouping) ==
    LET current_time == ParseTimestamp(message.timestamp)
        should_start_new_group ==
            IF ~grouping THEN TRUE
            ELSE IF st.previous_sender # message.sender THEN TRUE
            ELSE IF None = st.previous_timestamp \/ None = current_time THEN TRUE
            ELSE TimeDiffExceeds(st.previous_timestamp, current_time)
    IN  [output |-> IF should_start_new_group
                    THEN FlushGroup(st.output, st.current_group_messages)
                    ELSE st.output,
         current_group_messages |->
             (IF should_start_new_group THEN <<>> ELSE st.current_group_messages) \o <<message>>,
         previous_sender |-> message.sender,
         previous_timestamp |-> current_time,
         raised |-> None]

\* the loop 'for message in messages', left when an exception is raised
RECURSIVE ConvertLoop(_, _, _)
ConvertLoop(st, msgs, grouping) ==
    IF msgs = <<>> \/ st.raised # None THEN st
    ELSE ConvertLoop(IF msgs[1].is_system_message
                     THEN ConvertSystemMessage(st, msgs[1])
                     ELSE ConvertRegularMessage(st, msgs[1], grouping),
                     Tail(msgs), grouping)

\* '\n'.join(output)
RECURSIVE JoinLines(_)
JoinLines(out) ==
    IF out = <<>> THEN <<>>
    ELSE IF Len(out) = 1 THEN out[1]
    ELSE out[1] \o <<"\n">> \o JoinLines(Tail(out))

\* MarkdownConverter.convert: the exception raised, or None and the text
Convert(msgs, date, grouping, descr, tag_list) ==
    IF msgs = <<>> THEN [raised |-> None, text |-> <<>>]
    ELSE LET st == ConvertLoop([output |-> FrontMatter(date, descr, tag_list),
                                previous_sender |-> None, previous_timestamp |-> None,
                                current_group_messages |-> <<>>, raised |-> None],
                               msgs, grouping)
         IN  IF st.raised # None THEN [raised |-> st.raised, text |-> <<>>]
             ELSE [raised |-> None,
                   text |-> JoinLines(FlushGroup(st.output, st.current_group_messages))]

\* the longest message sequence handed to convert
MaxMessages == 3

\* time stamps as the parsers deliver them
Stamp_12_02_08_AM == <<"1", "2", ":", "0", "2", ":", "0", "8", " ", "A", "M">>
Stamp_12_04_08_AM == <<"1", "2", ":", "0", "4", ":", "0", "8", " ", "A", "M">>
Stamp_12_04_AM == <<"1", "2", ":", "0", "4", " ", "A", "M">>
Stamp_12_01_AM == <<"1", "2", ":", "0", "1", " ", "A", "M">>
Stamp_11_59_PM == <<"1", "1", ":", "5", "9", " ", "P", "M">>
Stamp_22_00_00 == <<"2", "2", ":", "0", "0", ":", "0", "0">>

\* the messages convert is called with
MessagePool ==
    { Message(<<"Alice">>, Stamp_12_02_08_AM, <<"hi">>, FALSE),
      Message(<<"Alice">>, Stamp_12_04_08_AM, <<"a", "*", "b">>, FALSE),
      Message(<<"Alice">>, Stamp_12_04_AM, <<"there">>, FALSE),
      Message(<<"Alice">>, Stamp_12_01_AM, <<"hello">>, FALSE),
      Message(<<"Alice">>, Stamp_11_59_PM, <<"k">>, FALSE),
      Message(<<"Bob">>, Stamp_12_02_08_AM, <<"lol">>, FALSE),
      Message(<<"Bob">>, Stamp_22_00_00, <<"sleeping">>, FALSE),
      Message(<<"System">>, <<>>, <<"Alice", " ", SIGNED, " ", "1PM">>, TRUE) }

RECURSIVE MessageListsOf(_)
MessageListsOf(n) ==
    IF n = 0 THEN {<<>>}
    ELSE {l \o <<m>> : l \in MessageListsOf(n - 1), m \in MessagePool}

MessageLists == UNION {MessageListsOf(n) : n \in 0..MaxMessages}

\* a call of convert: the messages and the other arguments
InitConvert ==
    /\ c_messages \in MessageLists
    /\ \/ /\ conversation_date = None
          /\ group_consecutive \in BOOLEAN
          /\ description = None
          /\ tags = None
       \/ /\ conversation_date = None
          /\ group_consecutive = TRUE
          /\ description = <<"A chat">>
          /\ tags = <<"school", "aim">>
       \/ /\ conversation_date = [year |-> 2004, month |-> 5, day |-> 18]
          /\ group_consecutive = TRUE
          /\ \/ description = None /\ tags = <<>>
             \/ description = None /\ tags = None
             \/ description = <<"A chat">> /\ tags = <<"aim", "school">>
             \/ description = <<"A chat">> /\ tags = <<"school", "aim">>
    /\ c_pc = "call"
    /\ markdown = <<>>
    /\ IdleParse /\ IdleNormalize /\ IdleDate /\ IdleSample /\ IdleProcess /\ IdleGenerate /\ IdleScan /\ IdleDetect /\ IdleBatch

\* the call returns the text
ConvertReturn ==
    /\ c_pc = "call"
    /\ LET r == Convert(c_messages, conversation_date, group_consecutive, description, tags)
       IN  /\ r.raised = None
           /\ markdown' = r.text
    /\ c_pc' = "returned"
    /\ UNCHANGED <<c_messages, conversation_date, group_consecutive, description, tags>>
    /\ UNCHANGED <<parse_vars, normalize_vars, date_vars, sample_vars, process_vars, generate_vars, scan_vars, detect_vars, batch_vars>>

\* the call is left by an exception
ConvertRaise ==
    /\ c_pc = "call"
    /\ Convert(c_messages, conversation_date, group_consecutive, description, tags).raised # None
    /\ c_pc' = "raised"
    /\ UNCHANGED <<c_messages, conversation_date, group_consecutive, description, tags, markdown>>
    /\ UNCHANGED <<parse_vars, normalize_vars, date_vars, sample_vars, process_vars, generate_vars, scan_vars, detect_vars, batch_vars>>

NextConvert ==
    \/ ConvertReturn
    \/ ConvertRaise

SpecConvert == InitConvert /\ [][NextConvert]_vars

\* ------------------------------------------------------------------------
\* What the text returned by convert shows
\* ------------------------------------------------------------------------

\* the lines of the text
MarkdownLines == Split(markdown, "\n")

\* the line that heads a block
IsHeaderLine(l) == l # <<>> /\ l[1] = "**"

\* the first line of a callout
IsCalloutLine(l) ==
    l # <<>> /\ l[1] \in {"> [!NOTE]", "> [!ATTENTION]", "> [!QUOTE] Auto response from "}

\* a quoted line
IsQuoteLine(l) == l # <<>> /\ l[1] = "> "

\* the header line of a block that starts with message m
HeaderLineOf(m) == <<"**">> \o m.sender \o <<"** (">> \o m.timestamp \o <<"):">>

\* the positions of the quoted lines, in order
QuotePositions ==
    SortedSeq({p \in 1..Len(MarkdownLines) : IsQuoteLine(MarkdownLines[p])})

\* the position of the header line of the block that holds line p, 0 if none
HeaderBefore(p) ==
    IF \E q \in 1..(p - 1) : IsHeaderLine(MarkdownLines[q])
    THEN CHOOSE q \in 1..(p - 1) :
             IsHeaderLine(MarkdownLines[q]) /\ \A r \in (q + 1)..(p - 1) : ~IsHeaderLine(MarkdownLines[r])
    ELSE 0

\* every message is a regular one with a content of one line
AllRegular(msgs) == \A k \in 1..Len(msgs) : ~msgs[k].is_system_message

\* the time between two time stamps in seconds, the shorter way round the
\* clock; -1 when one of them is not a time of day
GapSeconds(ts1, ts2) ==
    LET t1 == ParseTimestamp(ts1)
        t2 == ParseTimestamp(ts2)
        d  == IF SecondsOfDay(t1) < SecondsOfDay(t2)
              THEN SecondsOfDay(t2) - SecondsOfDay(t1)
              ELSE SecondsOfDay(t1) - SecondsOfDay(t2)
    IN  IF None = t1 \/ None = t2 THEN 0 - 1
        ELSE IF d > 12 * 3600 THEN 24 * 3600 - d ELSE d

\* ------------------------------------------------------------------------
\* C14, C15
\* ------------------------------------------------------------------------

\* C14: in the text convert returns for regular messages, two consecutive
\* messages are in one block if and only if they have the same sender and
\* their time stamps are at most 2 minutes apart; otherwise the second one
\* starts a block headed by its own sender and time stamp.
C14_MergeIffSameSenderWithinTwoMinutes ==
    (c_pc = "returned" /\ group_consecutive /\ AllRegular(c_messages)) =>
        /\ Len(QuotePositions) = Len(c_messages)
        /\ \A k \in 1..(Len(c_messages) - 1) :
               LET m1 == c_messages[k]
                   m2 == c_messages[k + 1]
                   gap == GapSeconds(m1.timestamp, m2.timestamp)
                   within == /\ m1.sender = m2.sender
                             /\ gap >= 0
                             /\ gap <= 2 * 60
                   merged == HeaderBefore(QuotePositions[k]) = HeaderBefore(QuotePositions[k + 1])
               IN  /\ merged <=> within
                   /\ ~merged =>
                          MarkdownLines[HeaderBefore(QuotePositions[k + 1])] = HeaderLineOf(m2)

\* C15: a call of convert with a system message returns a text in which
\* every system message has its own callout, placed behind the quoted lines
\* of the regular messages before it, and in which a regular message that
\* follows a system message starts a block of its own.
C15_SystemMessageClosesGroup ==
    (c_pc \in {"returned", "raised"} /\ ~AllRegular(c_messages)) =>
        /\ c_pc = "returned"
        /\ LET callouts == SortedSeq({p \in 1..Len(MarkdownLines) : IsCalloutLine(MarkdownLines[p])})
               systems  == SortedSeq({k \in 1..Len(c_messages) : c_messages[k].is_system_message})
           IN  /\ Len(callouts) = Len(systems)
               /\ \A n \in 1..Len(systems) :
                      LET k == systems[n]
                          p == callouts[n]
                      IN  /\ Cardinality({q \in 1..(p - 1) : IsQuoteLine(MarkdownLines[q])})
                                 = (k - n) + (n - 1)
                          /\ (k < Len(c_messages) /\ ~c_messages[k + 1].is_system_message) =>
                                 /\ p + 3 <= Len(MarkdownLines)
                                 /\ MarkdownLines[p + 3] = HeaderLineOf(c_messages[k + 1])

\* ------------------------------------------------------------------------
\* _sample_conversation_content (filename_generator.py 168-220, and the
\* same code in tag_evaluator.py 178-228)
\* ------------------------------------------------------------------------

\* Python's min of two numbers
Min(a, b) == IF a <= b THEN a ELSE b

\* the two separator lines
CONTINUES == "... [conversation continues] ..."
END_OF_CONVERSATION == "... [end of conversation] ..."

\* lst[lo:hi] for lo, hi >= 0
ListSlice(lst, lo, hi) == SubSeq(lst, lo + 1, Min(hi, Len(lst)))

\* the position Python gives the index -k of a list: -0 is 0, the start
FromEnd(lst, k) == IF k > 0 THEN (IF Len(lst) >= k THEN Len(lst) - k ELSE 0) ELSE 0

\* line 182: start_count
StartCount(quota) == Min(10, quota \div 4)

\* line 187: end_count, of the quota left behind the start
EndCount(remaining_quota) == Min(10, remaining_quota \div 3)

\* a quota that is not charged for the last entries
MiddleQuota_Uncharged(remaining_quota, end_count) == remaining_quota

\* line 189: remaining_quota -= end_count
MiddleQuota(remaining_quota, end_count) == remaining_quota - end_count

\* an index that takes every entry of the middle twice
SampleIndex_Twice(i, length, remaining_quota) == i \div 2

\* lines 201-203: int(i * step) for step = len(middle_messages) / remaining_quota;
\* for the lengths of this model the float product has the integer part of
\* the exact one
SampleIndex(i, length, remaining_quota) == (i * length) \div remaining_quota

\* lines 173-220 before the join: the list 'result' (lines 175 and 208-218)
SampleLines(content, quota) ==
    IF Len(content) <= quota THEN content
    ELSE LET total_messages == Len(content)
             start_count == StartCount(quota)
             end_count == EndCount(quota - start_count)
             remaining_quota == MiddleQuota(quota - start_count, end_count)
             middle_start == start_count
             middle_end == total_messages - end_count
             sampling == middle_end > middle_start /\ remaining_quota > 0
             middle_messages == ListSlice(content, middle_start, middle_end)
             middle_sampled ==
                 IF ~sampling THEN <<>>
                 ELSE IF Len(middle_messages) <= remaining_quota THEN middle_messages
                 ELSE [i \in 1..remaining_quota |->
                          middle_messages[SampleIndex(i - 1, Len(middle_messages), remaining_quota) + 1]]
             sampled_messages ==
                 ListSlice(content, 0, start_count) \o middle_sampled
                     \o ListSlice(content, FromEnd(content, end_count), total_messages)
             n == Len(sampled_messages)
         IN  ListSlice(sampled_messages, 0, start_count)
             \o (IF sampling
                 THEN <<<<CONTINUES>>>>
                      \o ListSlice(sampled_messages, start_count, FromEnd(sampled_messages, end_count))
                 ELSE <<>>)
             \o (IF end_count > 0
                 THEN <<<<END_OF_CONVERSATION>>>>
                      \o ListSlice(sampled_messages, FromEnd(sampled_messages, end_count), n)
                 ELSE <<>>)

\* _sample_conversation_content: the text returned
SampleConversationContent(content, quota) == JoinLines(SampleLines(content, quota))

\* the bounds of the calls: entries in the list, and max_messages
MaxEntries == 48
MaxQuota == 44

\* entry k of a conversation: 'sender: content' (filename_generator.py 62, 130;
\* tag_evaluator.py 126), a line of its own
Entry(k) == <<ToString(k) \o ": hi">>

\* the conversation of n entries
Conversation(n) == [k \in 1..n |-> Entry(k)]

\* a call of _sample_conversation_content
InitSample ==
    /\ conversation_content \in {Conversation(n) : n \in 0..MaxEntries}
    /\ max_messages \in 0..MaxQuota
    /\ s_pc = "call"
    /\ sampled = <<>>
    /\ IdleParse /\ IdleNormalize /\ IdleDate /\ IdleConvert /\ IdleProcess /\ IdleGenerate /\ IdleScan /\ IdleDetect /\ IdleBatch

\* the call returns a conversation of at most max_messages entries in full
SampleReturnAll ==
    /\ s_pc = "call"
    /\ Len(conversation_content) <= max_messages
    /\ sampled' = SampleConversationContent(conversation_content, max_messages)
    /\ s_pc' = "returned"
    /\ UNCHANGED <<conversation_content, max_messages>>
    /\ UNCHANGED <<parse_vars, normalize_vars, date_vars, convert_vars, process_vars, generate_vars, scan_vars, detect_vars, batch_vars>>

\* the call returns the sample of a longer conversation
SampleReturnSampled ==
    /\ s_pc = "call"
    /\ Len(conversation_content) > max_messages
    /\ sampled' = SampleConversationContent(conversation_content, max_messages)
    /\ s_pc' = "returned"
    /\ UNCHANGED <<conversation_content, max_messages>>
    /\ UNCHANGED <<parse_vars, normalize_vars, date_vars, convert_vars, process_vars, generate_vars, scan_vars, detect_vars, batch_vars>>

NextSample ==
    \/ SampleReturnAll
    \/ SampleReturnSampled

SpecSample == InitSample /\ [][NextSample]_vars

\* ------------------------------------------------------------------------
\* C16, C17
\* ------------------------------------------------------------------------

\* the lines of the text returned by the call
SampledLines == IF sampled = <<>> THEN <<>> ELSE Split(sampled, "\n")

\* the positions of a line in the text returned
PositionsOf(l) == {p \in 1..Len(SampledLines) : SampledLines[p] = l}

\* the lines of the text that are not separator lines
EntryPositions ==
    {p \in 1..Len(SampledLines) :
        SampledLines[p] \notin {<<CONTINUES>>, <<END_OF_CONVERSATION>>}}

\* C16: the text returned for a conversation with more entries than
\* max_messages holds the first entry and the last entry, and holds each of
\* the two separator lines exactly once, 'conversation continues' before
\* 'end of conversation'.
C16_SampleKeepsEndsAndSeparators ==
    (s_pc = "returned" /\ Len(conversation_content) > max_messages) =>
        /\ PositionsOf(conversation_content[1]) # {}
        /\ PositionsOf(conversation_content[Len(conversation_content)]) # {}
        /\ Cardinality(PositionsOf(<<CONTINUES>>)) = 1
        /\ Cardinality(PositionsOf(<<END_OF_CONVERSATION>>)) = 1
        /\ \A p \in PositionsOf(<<CONTINUES>>) :
               \A q \in PositionsOf(<<END_OF_CONVERSATION>>) : p < q

\* C17: the text returned for a conversation with more entries than
\* max_messages has at most max_messages lines that are not separators; a
\* conversation of at most max_messages entries is returned whole, entry by
\* entry, with no separator line.
C17_SampleWithinQuota ==
    s_pc = "returned" =>
        IF Len(conversation_content) > max_messages
        THEN Cardinality(EntryPositions) <= max_messages
        ELSE /\ SampledLines = conversation_content
             /\ PositionsOf(<<CONTINUES>>) = {}
             /\ PositionsOf(<<END_OF_CONVERSATION>>) = {}

\* a conversation of 48 entries sampled down to 44: ten from the start, ten
\* from the end, and the whole quota is used
C17_Witness ==
    /\ s_pc = "returned"
    /\ Len(conversation_content) = 48
    /\ max_messages = 44
    /\ Cardinality(EntryPositions) = 44
    /\ SubSeq(SampledLines, 1, 10) = SubSeq(conversation_content, 1, 10)
    /\ SampledLines[11] = <<CONTINUES>>

\* ------------------------------------------------------------------------
\* process_file (main.py 13-52)
\* ------------------------------------------------------------------------

\* the parameters of MarkdownConverter.convert (markdown_converter.py 14-16)
ConvertParameters ==
    {"messages", "conversation_date", "group_consecutive", "description", "tags"}

\* the keyword arguments of the call on line 41 of main.py
ProcessFileKeywords ==
    {"conversation_date", "group_consecutive", "description", "tags", "participants"}

\* a tag list with the custom tags in front of 'aim'
FinalTags_CustomFirst(tag_list) ==
    (IF tag_list # None /\ tag_list # <<>> THEN tag_list ELSE <<>>) \o <<"aim">>

\* lines 36-38: final_tags
FinalTags(tag_list) ==
    <<"aim">> \o (IF tag_list # None /\ tag_list # <<>> THEN tag_list ELSE <<>>)

\* line 26: the warning printed for a document without messages
WarningLine(name) == <<"Warning: No messages found in ">> \o name

\* line 51: the line printed for an exception
ErrorLine(name, exception) == <<"Error processing ">> \o name \o <<": ">> \o exception

\* lines 47-48: the lines printed after the output is written
SuccessLines(name, count) ==
    << <<"Successfully converted ">> \o name, <<"  - Parsed ", ToString(count), " messages">> >>

\* the documents process_file is called on: those of one line, and one of
\* two chat messages
MainDocuments == DocsOf(1) \cup {LineComment \o LineCommentLong}

\* the names of the input files
MainNames ==
    { <<"2", "0", "0", "4", "-", "0", "5", "-", "1", "8", ".", "h", "t", "m">>,
      <<"2", "0", "0", "4", "-", "1", "3", "-", "0", "1", ".", "h", "t", "m">>,
      <<"c", "h", "a", "t", ".", "h", "t", "m">> }

\* a call of process_file: the file is read and AIMParser.parse is entered
InitMain ==
    /\ html_content \in MainDocuments
    /\ pc = "start"
    /\ parser = ""
    /\ lines = <<>>
    /\ parts = <<>>
    /\ idx = 1
    /\ current_message_html = <<>>
    /\ flushed_blocks = <<>>
    /\ messages = <<>>
    /\ p_pc = "parse"
    /\ input_name \in MainNames
    /\ \/ p_description = None /\ custom_tags = None /\ participants = None
       \/ p_description = <<"A chat">> /\ custom_tags = <<"school">> /\ participants = <<"Alice">>
    /\ p_date = None
    /\ output_file = NotWritten
    /\ stdout = <<>>
    /\ stderr = <<>>
    /\ p_raised = None
    /\ IdleNormalize /\ IdleDate /\ IdleConvert /\ IdleSample /\ IdleGenerate /\ IdleScan /\ IdleDetect /\ IdleBatch

\* a process_file that raises for a document without messages
ProcessFileNoMessages_Raise ==
    /\ p_pc = "parse"
    /\ pc = "done"
    /\ messages = <<>>
    /\ stderr' = Append(stderr, ErrorLine(input_name, <<"ValueError">>))
    /\ p_raised' = Raised("ValueError")
    /\ p_pc' = "raised"
    /\ UNCHANGED <<input_name, p_description, custom_tags, participants, p_date, output_file, stdout>>
    /\ UNCHANGED <<parse_vars, normalize_vars, date_vars, convert_vars, sample_vars, generate_vars, scan_vars, detect_vars, batch_vars>>

\* lines 25-27: no messages, the warning is printed and the call returns
ProcessFileNoMessages ==
    /\ p_pc = "parse"
    /\ pc = "done"
    /\ messages = <<>>
    /\ stdout' = Append(stdout, WarningLine(input_name))
    /\ p_pc' = "returned"
    /\ UNCHANGED <<input_name, p_description, custom_tags, participants, p_date, output_file,
                   stderr, p_raised>>
    /\ UNCHANGED <<parse_vars, normalize_vars, date_vars, convert_vars, sample_vars, generate_vars, scan_vars, detect_vars, batch_vars>>

\* lines 30-31: the date is extracted from the name of the file
ProcessFileDate ==
    /\ p_pc = "parse"
    /\ pc = "done"
    /\ messages # <<>>
    /\ None # ExtractDateFromFilename(input_name)
    /\ p_date' = ExtractDateFromFilename(input_name)
    /\ p_pc' = "convert"
    /\ UNCHANGED <<input_name, p_description, custom_tags, participants, output_file,
                   stdout, stderr, p_raised>>
    /\ UNCHANGED <<parse_vars, normalize_vars, date_vars, convert_vars, sample_vars, generate_vars, scan_vars, detect_vars, batch_vars>>

\* lines 30-33: extract_date_from_filename raises ValueError, date = None
ProcessFileNoDate ==
    /\ p_pc = "parse"
    /\ pc = "done"
    /\ messages # <<>>
    /\ None = ExtractDateFromFilename(input_name)
    /\ p_date' = None
    /\ p_pc' = "convert"
    /\ UNCHANGED <<input_name, p_description, custom_tags, participants, output_file,
                   stdout, stderr, p_raised>>
    /\ UNCHANGED <<parse_vars, normalize_vars, date_vars, convert_vars, sample_vars, generate_vars, scan_vars, detect_vars, batch_vars>>

\* lines 36-52: the call of convert, and either the output is written and
\* the call returns, or the exception is printed and raised again; the call
\* with a keyword convert does not declare raises TypeError
ProcessFileConvert ==
    /\ p_pc = "convert"
    /\ LET final_tags == FinalTags(custom_tags)
           result ==
               IF ProcessFileKeywords \subseteq ConvertParameters
               THEN Convert(messages, p_date, TRUE, p_description, final_tags)
               ELSE [raised |-> Raised("TypeError"), text |-> <<>>]
       IN  /\ c_messages' = messages
           /\ conversation_date' = p_date
           /\ group_consecutive' = TRUE
           /\ description' = p_description
           /\ tags' = final_tags
           /\ IF result.raised = None
              THEN /\ c_pc' = "returned"
                   /\ markdown' = result.text
                   /\ output_file' = result.text
                   /\ stdout' = stdout \o SuccessLines(input_name, Len(messages))
                   /\ p_pc' = "returned"
                   /\ UNCHANGED <<stderr, p_raised>>
              ELSE /\ c_pc' = "raised"
                   /\ stderr' = Append(stderr, ErrorLine(input_name, <<result.raised[2]>>))
                   /\ p_raised' = result.raised
                   /\ p_pc' = "raised"
                   /\ UNCHANGED <<markdown, output_file, stdout>>
    /\ UNCHANGED <<input_name, p_description, custom_tags, participants, p_date>>
    /\ UNCHANGED <<parse_vars, normalize_vars, date_vars, sample_vars, generate_vars, scan_vars, detect_vars, batch_vars>>

NextMain ==
    \/ GetParser
    \/ CommentSkipBlank
    \/ CommentFlush
    \/ CommentAccumulate
    \/ CommentReturn
    \/ SpanSkip
    \/ SpanProcess
    \/ SpanReturn
    \/ ProcessFileNoMessages
    \/ ProcessFileDate
    \/ ProcessFileNoDate
    \/ ProcessFileConvert

SpecMain == InitMain /\ [][NextMain]_vars

\* ------------------------------------------------------------------------
\* C18, C19
\* ------------------------------------------------------------------------

\* process_file is over: it returned or raised
ProcessFileOver == p_pc \in {"returned", "raised"}

\* C18: a call of process_file on a document with messages whose file name
\* yields no date is not aborted: it ends without an exception, with no
\* date, and with the converted messages written to the output file.
C18_UndatedFileStillWritten ==
    (ProcessFileOver /\ messages # <<>> /\ None = ExtractDateFromFilename(input_name)) =>
        /\ p_pc = "returned"
        /\ p_raised = None
        /\ p_date = None
        /\ output_file # NotWritten

\* C19: a call of process_file on a document that yields no messages ends
\* by returning, with the warning printed, nothing raised or printed as an
\* error and no output file written; and convert returns the empty text
\* for the empty list of messages.
C19_NoMessagesWarns ==
    (ProcessFileOver /\ messages = <<>>) =>
        /\ p_pc = "returned"
        /\ stdout = <<WarningLine(input_name)>>
        /\ stderr = <<>>
        /\ p_raised = None
        /\ output_file = NotWritten
        /\ \A g \in BOOLEAN :
               Convert(messages, p_date, g, p_description, FinalTags(custom_tags))
                   = [raised |-> None, text |-> <<>>]

\* the call on a document of one junk line, named chat.htm, has returned
C19_Witness ==
    /\ p_pc = "returned"
    /\ html_content = LineJunk
    /\ input_name = <<"c", "h", "a", "t", ".", "h", "t", "m">>
    /\ messages = <<>>
    /\ stdout = <<WarningLine(input_name)>>
    /\ output_file = NotWritten

\* ------------------------------------------------------------------------
\* The generation component: _generate_title_with_llm and
\* generate_description (filename_generator.py), evaluate_tags
\* (tag_evaluator.py). A response text is a sequence of characters.
\* ------------------------------------------------------------------------

\* n times the character c
Repeat(c, n) == [i \in 1..n |-> c]

\* what generate_content, or reading response.text, raises
ApiError == Raised("Exception")

\* re.sub(r'^["\']|["\']$', '', text)
RemoveQuotes(text) ==
    LET quotes == {"\"", "'"}
        opened == IF text # <<>> /\ text[1] \in quotes THEN Tail(text) ELSE text
    IN  IF opened # <<>> /\ opened[Len(opened)] \in quotes
        THEN SubSeq(opened, 1, Len(opened) - 1)
        ELSE opened

\* text.replace('\n', ' ')
ReplaceNewlines(text) == [i \in 1..Len(text) |-> IF text[i] = "\n" THEN " " ELSE text[i]]

\* text.rfind('.') + 1: the last position of a period, 0 when there is none
RFindPeriod(text) ==
    IF \E i \in 1..Len(text) : text[i] = "."
    THEN CHOOSE i \in 1..Len(text) : text[i] = "." /\ \A j \in (i + 1)..Len(text) : text[j] # "."
    ELSE 0

\* the lines 'sender: content' of the regular messages
RECURSIVE ConversationContent(_)
ConversationContent(msgs) ==
    IF msgs = <<>> THEN <<>>
    ELSE (IF msgs[1].is_system_message THEN <<>>
          ELSE <<msgs[1].sender \o <<": ">> \o msgs[1].content>>)
         \o ConversationContent(Tail(msgs))

\* the conversation text handed to the model, sampled to 100 entries
ConversationText(msgs) == SampleConversationContent(ConversationContent(msgs), 100)

\* filename_generator.py 152-164: the title made of a response text
TitleOf(text) ==
    LET title == Strip(ReplaceNewlines(RemoveQuotes(Strip(text))))
        cut == IF Len(title) > 50 THEN Strip(SubSeq(title, 1, 50)) ELSE title
    IN  IF cut # <<>> THEN cut ELSE <<"General conversation">>

\* filename_generator.py 92-106: the description made of a response text
DescriptionOf(text) ==
    LET cleaned == Strip(ReplaceNewlines(RemoveQuotes(Strip(text))))
        cut == Strip(SubSeq(cleaned, 1, 300))
        last_period == RFindPeriod(cut) - 1
    IN  IF Len(cleaned) < 20 THEN <<"Brief conversation between participants">>
        ELSE IF Len(cleaned) > 300
        THEN (IF last_period > 200 THEN SubSeq(cut, 1, last_period + 1) ELSE cut)
        ELSE cleaned

\* tag_evaluator.py 168-172: the lines of a response that name a tag
RECURSIVE SuggestedTags(_, _)
SuggestedTags(response_lines, configs) ==
    IF response_lines = <<>> THEN <<>>
    ELSE LET tag_name == Strip(response_lines[1])
         IN  (IF \E k \in 1..Len(configs) : <<configs[k]>> = tag_name
              THEN tag_name ELSE <<>>)
             \o SuggestedTags(Tail(response_lines), configs)

\* tag_evaluator.py 160-174: the tags made of a response text
TagsOf(text, configs) ==
    IF Strip(text) = <<>> THEN <<>> ELSE SuggestedTags(Split(Strip(text), "\n"), configs)

\* the longest list of messages a method is called with
MaxGenerated == 2

\* the messages a method is called with
GeneratedPool ==
    { Message(<<"Alice">>, Stamp_12_02_08_AM, <<"hi">>, FALSE),
      Message(<<"Bob">>, Stamp_12_04_AM, <<"lol">>, FALSE),
      Message(<<"System">>, <<>>, <<"Alice", " ", SIGNED, " ", "1PM">>, TRUE) }

RECURSIVE GeneratedListsOf(_)
GeneratedListsOf(n) ==
    IF n = 0 THEN {<<>>}
    ELSE {l \o <<m>> : l \in GeneratedListsOf(n - 1), m \in GeneratedPool}

\* what the external call does: it fails, or it answers one of these texts
Responses ==
    { ApiError,
      <<>>,
      <<" ", "\"", "T", "r", "i", "p", "\"", "\n">>,
      Repeat("a", 51),
      Repeat("a", 250) \o <<".">> \o Repeat("b", 59),
      <<"school", "\n", " ", "bogus", "\n", "work">> }

\* a call of one of the three methods
InitGenerate ==
    /\ g_op \in {"_generate_title_with_llm", "generate_description", "evaluate_tags"}
    /\ g_messages \in UNION {GeneratedListsOf(n) : n \in 0..MaxGenerated}
    /\ tag_configs \in {<<>>, <<"school", "work">>}
    /\ response \in Responses
    /\ g_pc = "call"
    /\ g_called = FALSE
    /\ g_prompt = None
    /\ g_stdout = <<>>
    /\ g_returned = None
    /\ g_raised = None
    /\ IdleParse /\ IdleNormalize /\ IdleDate /\ IdleConvert /\ IdleSample /\ IdleProcess /\ IdleScan /\ IdleDetect /\ IdleBatch

\* what a method leaves alone
GenerateFrame ==
    /\ UNCHANGED <<g_op, g_messages, tag_configs, response>>
    /\ UNCHANGED <<parse_vars, normalize_vars, date_vars, convert_vars, sample_vars, process_vars, scan_vars, detect_vars, batch_vars>>

\* the method returns a value without a call of the model
ReturnWithoutCall(value) ==
    /\ g_returned' = value
    /\ g_pc' = "returned"
    /\ UNCHANGED <<g_called, g_prompt, g_stdout, g_raised>>
    /\ GenerateFrame

\* the method calls the model and returns a value
ReturnAfterCall(value) ==
    /\ g_called' = TRUE
    /\ g_prompt' = ConversationText(g_messages)
    /\ g_returned' = value
    /\ g_pc' = "returned"
    /\ UNCHANGED <<g_stdout, g_raised>>
    /\ GenerateFrame

\* the method calls the model and raises RuntimeError
RaiseAfterCall ==
    /\ g_called' = TRUE
    /\ g_prompt' = ConversationText(g_messages)
    /\ g_raised' = Raised("RuntimeError")
    /\ g_pc' = "raised"
    /\ UNCHANGED <<g_stdout, g_returned>>
    /\ GenerateFrame

\* filename_generator.py 121-122
GenerateTitleNoMessages ==
    /\ g_pc = "call" /\ g_op = "_generate_title_with_llm"
    /\ g_messages = <<>>
    /\ ReturnWithoutCall(<<"Conversation">>)

\* filename_generator.py 124-163
GenerateTitleReturn ==
    /\ g_pc = "call" /\ g_op = "_generate_title_with_llm"
    /\ g_messages # <<>>
    /\ response # ApiError
    /\ ReturnAfterCall(TitleOf(response))

\* a title method that answers a failed call with the default title
GenerateTitleRaise_Default ==
    /\ g_pc = "call" /\ g_op = "_generate_title_with_llm"
    /\ g_messages # <<>>
    /\ response = ApiError
    /\ ReturnAfterCall(<<"General conversation">>)

\* filename_generator.py 151-166: the call fails
GenerateTitleRaise ==
    /\ g_pc = "call" /\ g_op = "_generate_title_with_llm"
    /\ g_messages # <<>>
    /\ response = ApiError
    /\ RaiseAfterCall

\* filename_generator.py 49-55
GenerateDescriptionNoMessages ==
    /\ g_pc = "call" /\ g_op = "generate_description"
    /\ ConversationContent(g_messages) = <<>>
    /\ ReturnWithoutCall(IF g_messages = <<>>
                         THEN <<"Empty conversation">>
                         ELSE <<"Conversation with only system messages">>)

\* filename_generator.py 57-106
GenerateDescriptionReturn ==
    /\ g_pc = "call" /\ g_op = "generate_description"
    /\ ConversationContent(g_messages) # <<>>
    /\ response # ApiError
    /\ ReturnAfterCall(DescriptionOf(response))

\* filename_generator.py 87-109: the call fails
GenerateDescriptionRaise ==
    /\ g_pc = "call" /\ g_op = "generate_description"
    /\ ConversationContent(g_messages) # <<>>
    /\ response = ApiError
    /\ RaiseAfterCall

\* tag_evaluator.py 115-121
EvaluateTagsNothing ==
    /\ g_pc = "call" /\ g_op = "evaluate_tags"
    /\ tag_configs = <<>> \/ ConversationContent(g_messages) = <<>>
    /\ ReturnWithoutCall(<<>>)

\* tag_evaluator.py 123-172
EvaluateTagsReturn ==
    /\ g_pc = "call" /\ g_op = "evaluate_tags"
    /\ tag_configs # <<>> /\ ConversationContent(g_messages) # <<>>
    /\ response # ApiError
    /\ ReturnAfterCall(TagsOf(response, tag_configs))

\* tag_evaluator.py 158-176: the call fails, a warning is printed and the
\* empty list is returned
EvaluateTagsFailed ==
    /\ g_pc = "call" /\ g_op = "evaluate_tags"
    /\ tag_configs # <<>> /\ ConversationContent(g_messages) # <<>>
    /\ response = ApiError
    /\ g_called' = TRUE
    /\ g_prompt' = ConversationText(g_messages)
    /\ g_stdout' = Append(g_stdout, <<"Warning: Failed to evaluate tags using Gemini API: ">>)
    /\ g_returned' = <<>>
    /\ g_pc' = "returned"
    /\ UNCHANGED g_raised
    /\ GenerateFrame

NextGenerate ==
    \/ GenerateTitleNoMessages
    \/ GenerateTitleReturn
    \/ GenerateTitleRaise
    \/ GenerateDescriptionNoMessages
    \/ GenerateDescriptionReturn
    \/ GenerateDescriptionRaise
    \/ EvaluateTagsNothing
    \/ EvaluateTagsReturn
    \/ EvaluateTagsFailed

SpecGenerate == InitGenerate /\ [][NextGenerate]_vars

\* ------------------------------------------------------------------------
\* C20
\* ------------------------------------------------------------------------

\* the method is over and its call of the model failed
CallFailed == g_pc \in {"returned", "raised"} /\ g_called /\ response = ApiError

\* C20: when the call of the model fails, the title method and the
\* description method raise RuntimeError and return nothing, no default
\* text in particular; evaluate_tags raises nothing and returns the empty
\* list of tags.
C20_GenerationFailureSurfaced ==
    CallFailed =>
        IF g_op \in {"_generate_title_with_llm", "generate_description"}
        THEN /\ g_pc = "raised"
             /\ g_raised = Raised("RuntimeError")
             /\ g_returned = None
        ELSE /\ g_pc = "returned"
             /\ g_raised = None
             /\ g_returned = <<>>

\* the title method, called with one message of Alice, has raised
\* RuntimeError after the call of the model failed
C20_Witness ==
    /\ CallFailed
    /\ g_op = "_generate_title_with_llm"
    /\ Len(g_messages) = 1 /\ g_messages[1].sender = <<"Alice">>
    /\ g_prompt = <<"Alice", ": ", "hi">>
    /\ g_pc = "raised"
    /\ g_raised = Raised("RuntimeError")

\* ------------------------------------------------------------------------
\* C21, C22: the frontmatter
\* ------------------------------------------------------------------------

\* what a line of the frontmatter, or the title header, starts with
FrontMatterMarks == {"---", "date: ", "description: ", "tags:", "  - ", "# AIM Conversation - "}

\* the positions of the lines of the text that start like frontmatter
MarkedPositions ==
    {p \in 1..Len(MarkdownLines) :
        MarkdownLines[p] # <<>> /\ MarkdownLines[p][1] \in FrontMatterMarks}

\* a description was supplied
DescriptionSupplied == description # None /\ description # <<>>

\* the lines between 'tags:' and the closing '---' are tag lines, at least one
TagLinesBetween(first, last) ==
    /\ first <= last
    /\ \A p \in first..last : MarkdownLines[p][1] = "  - "

\* the text starts with the frontmatter block and the title header, and no
\* line behind the header starts like one of their lines
FrontMatterPresent ==
    LET n == Cardinality(MarkedPositions)
        d == IF DescriptionSupplied THEN 1 ELSE 0
    IN  /\ MarkedPositions = 1..n
        /\ n >= 6 + d
        /\ MarkdownLines[1] = <<"---">>
        /\ MarkdownLines[2] = <<"date: ">> \o IsoDate(conversation_date)
        /\ DescriptionSupplied => MarkdownLines[3] = <<"description: ">> \o description
        /\ MarkdownLines[3 + d] = <<"tags:">>
        /\ TagLinesBetween(4 + d, n - 2)
        /\ MarkdownLines[n - 1] = <<"---">>
        /\ MarkdownLines[n] = <<"# AIM Conversation - ">> \o LongDate(conversation_date)

\* no line starts like frontmatter, and neither the description nor a tag
\* that was supplied is in the text
FrontMatterAbsent ==
    /\ MarkedPositions = {}
    /\ DescriptionSupplied =>
           \A i \in 1..Len(description) : ~Contains(markdown, description[i])
    /\ (tags # None) =>
           \A i \in 1..Len(tags) : ~Contains(markdown, tags[i])

InitRender == InitConvert \/ InitMain

NextRender ==
    \/ ConvertReturn
    \/ ConvertRaise
    \/ GetParser
    \/ CommentSkipBlank
    \/ CommentFlush
    \/ CommentAccumulate
    \/ CommentReturn
    \/ SpanSkip
    \/ SpanProcess
    \/ SpanReturn
    \/ ProcessFileNoMessages
    \/ ProcessFileDate
    \/ ProcessFileNoDate
    \/ ProcessFileConvert

SpecRender == InitRender /\ [][NextRender]_vars

\* the tags the text lists, in the order of their lines
ListedTags ==
    LET at == SortedSeq({p \in 1..Len(MarkdownLines) :
                            MarkdownLines[p] # <<>> /\ MarkdownLines[p][1] = "  - "})
    IN  [k \in 1..Len(at) |-> MarkdownLines[at[k]][2]]

\* C22: the frontmatter of a text convert returns for a date lists exactly
\* the tags supplied, in their order, or the one tag 'aim' when the tag
\* list is absent or empty; and the tag list process_file calls convert
\* with is 'aim' followed by the custom tags.
C22_TagsListedAsSupplied ==
    /\ (c_pc = "returned" /\ c_messages # <<>> /\ None # conversation_date) =>
           /\ \A p \in 1..Len(MarkdownLines) :
                  (MarkdownLines[p] # <<>> /\ MarkdownLines[p][1] = "  - ") =>
                      Len(MarkdownLines[p]) = 2
           /\ ListedTags = IF tags = None \/ tags = <<>> THEN <<"aim">> ELSE tags
    /\ (p_pc \in {"returned", "raised"} /\ c_pc # "idle") =>
           /\ tags # None
           /\ tags[1] = "aim"
           /\ Tail(tags) = IF custom_tags = None THEN <<>> ELSE custom_tags

\* a text returned for a date lists the two tags supplied, 'school' first
C22_Witness ==
    /\ c_pc = "returned"
    /\ p_pc = "idle"
    /\ c_messages # <<>>
    /\ None # conversation_date
    /\ tags = <<"school", "aim">>
    /\ ListedTags = <<"school", "aim">>

\* ------------------------------------------------------------------------
\* SpanBasedParser._find_span_end, character by character
\* (aim_parser.py 175-194) and the slice taken by parse (aim_parser.py 167-172)
\* ------------------------------------------------------------------------

\* the five characters content[i:i+5] is compared with (aim_parser.py 181)
SpanOpening == <<"<", "S", "P", "A", "N">>

\* the seven characters content[i:i+7] is compared with (aim_parser.py 185)
SpanClosing == <<"<", "/", "S", "P", "A", "N", ">">>

\* content[i:i+len(token)] == token, i an index from 0
StartsWith(content, i, token) ==
    /\ i + Len(token) <= Len(content)
    /\ SubSeq(content, i + 1, i + Len(token)) = token

\* content.find(ch, start): the least index from 0, at or after start, that
\* holds ch, and -1 when there is none
FindFrom(content, ch, start) ==
    IF \E k \in start..(Len(content) - 1) : content[k + 1] = ch
    THEN CHOOSE k \in start..(Len(content) - 1) :
             /\ content[k + 1] = ch
             /\ \A j \in start..(k - 1) : content[j + 1] # ch
    ELSE -1

\* content[:span_end]
Before(content, span_end) == SubSeq(content, 1, span_end)

\* the pieces scanned: every text of at most MaxTokens of these tokens
MaxTokens == 4

ScanTokens == {SpanOpening, <<">">>, SpanClosing, <<"x">>}

RECURSIVE TokenTexts(_)
TokenTexts(n) ==
    IF n = 0 THEN {<<>>}
    ELSE {token \o rest : token \in ScanTokens, rest \in TokenTexts(n - 1)}

ScanPieces == UNION {TokenTexts(n) : n \in 0..MaxTokens}

InitScan ==
    /\ f_pc = "call"
    /\ f_content \in ScanPieces
    /\ f_i = 0
    /\ f_span_count = 0
    /\ f_span_end = -1
    /\ f_message_content = None
    /\ IdleParse /\ IdleNormalize /\ IdleDate /\ IdleConvert /\ IdleSample /\ IdleProcess /\ IdleGenerate /\ IdleDetect /\ IdleBatch

ScanFrame ==
    /\ UNCHANGED f_content
    /\ UNCHANGED <<parse_vars, normalize_vars, date_vars, convert_vars, sample_vars, process_vars, generate_vars, detect_vars, batch_vars>>

\* span_count = 1; i = 0 (aim_parser.py 177-178)
FindSpanEndEnter ==
    /\ f_pc = "call"
    /\ f_pc' = "loop"
    /\ f_span_count' = 1
    /\ f_i' = 0
    /\ UNCHANGED <<f_span_end, f_message_content>>
    /\ ScanFrame

\* one iteration that meets '<SPAN' and leaves the cursor where it is when
\* the tag has no '>'
FindSpanEndOpening_Stuck ==
    /\ f_pc = "loop"
    /\ f_i < Len(f_content) /\ f_span_count > 0
    /\ StartsWith(f_content, f_i, SpanOpening)
    /\ f_span_count' = f_span_count + 1
    /\ LET tag_end == FindFrom(f_content, ">", f_i)
       IN  f_i' = IF tag_end # -1 THEN tag_end + 1 ELSE f_i
    /\ UNCHANGED <<f_pc, f_span_end, f_message_content>>
    /\ ScanFrame

\* one iteration that meets '<SPAN' (aim_parser.py 181-184)
FindSpanEndOpening ==
    /\ f_pc = "loop"
    /\ f_i < Len(f_content) /\ f_span_count > 0
    /\ StartsWith(f_content, f_i, SpanOpening)
    /\ f_span_count' = f_span_count + 1
    /\ LET tag_end == FindFrom(f_content, ">", f_i)
       IN  f_i' = IF tag_end # -1 THEN tag_end + 1 ELSE f_i + 1
    /\ UNCHANGED <<f_pc, f_span_end, f_message_content>>
    /\ ScanFrame

\* one iteration that meets '</SPAN>' (aim_parser.py 185-189); on return i
\* the caller slices part[:span_end] (aim_parser.py 167-171)
FindSpanEndClosing ==
    /\ f_pc = "loop"
    /\ f_i < Len(f_content) /\ f_span_count > 0
    /\ ~StartsWith(f_content, f_i, SpanOpening)
    /\ StartsWith(f_content, f_i, SpanClosing)
    /\ f_span_count' = f_span_count - 1
    /\ IF f_span_count - 1 = 0
       THEN /\ f_pc' = "returned"
            /\ f_span_end' = f_i
            /\ f_message_content' = Before(f_content, f_i)
            /\ UNCHANGED f_i
       ELSE /\ f_i' = f_i + 7
            /\ UNCHANGED <<f_pc, f_span_end, f_message_content>>
    /\ ScanFrame

\* one iteration on any other character (aim_parser.py 190-191)
FindSpanEndOther ==
    /\ f_pc = "loop"
    /\ f_i < Len(f_content) /\ f_span_count > 0
    /\ ~StartsWith(f_content, f_i, SpanOpening)
    /\ ~StartsWith(f_content, f_i, SpanClosing)
    /\ f_i' = f_i + 1
    /\ UNCHANGED <<f_pc, f_span_count, f_span_end, f_message_content>>
    /\ ScanFrame

\* the loop condition fails: return -1 if span_count > 0 else i
\* (aim_parser.py 180, 193-194); on -1 the caller skips the piece
\* (aim_parser.py 168-169)
FindSpanEndExhausted ==
    /\ f_pc = "loop"
    /\ ~(f_i < Len(f_content) /\ f_span_count > 0)
    /\ f_pc' = "returned"
    /\ f_span_end' = IF f_span_count > 0 THEN -1 ELSE f_i
    /\ f_message_content' =
           IF f_span_count > 0 THEN None ELSE Before(f_content, f_i)
    /\ UNCHANGED <<f_i, f_span_count>>
    /\ ScanFrame

NextScan ==
    \/ FindSpanEndEnter
    \/ FindSpanEndOpening
    \/ FindSpanEndClosing
    \/ FindSpanEndOther
    \/ FindSpanEndExhausted

SpecScan == InitScan /\ [][NextScan]_vars

\* ---- claim-side vocabulary for the nesting depth ----

\* the indices (from 0) at which a '<SPAN' opening, a '</SPAN>' closing starts
Openings(content) ==
    {p \in 0..(Len(content) - 1) : StartsWith(content, p, SpanOpening)}

Closings(content) ==
    {p \in 0..(Len(content) - 1) : StartsWith(content, p, SpanClosing)}

\* the depth after the marks up to index p, every mark of the text counted
DepthAt(content, p) ==
    1 + Cardinality({q \in Openings(content) : q <= p})
      - Cardinality({q \in Closings(content) : q <= p})

LeastOf(S) == CHOOSE p \in S : \A q \in S : p <= q

\* the closings at which the depth is zero
ZeroClosings(content) == {p \in Closings(content) : DepthAt(content, p) = 0}

\* C23: with every '<SPAN' opening adding one and every '</SPAN>' closing
\* subtracting one from a depth that starts at one, _find_span_end
\* returns the index of the first closing at which the depth is zero, the
\* slice being the text before it, and returns -1 exactly when there is no
\* such closing.
C23_FirstZeroDepthClosing ==
    f_pc = "returned" =>
        IF ZeroClosings(f_content) = {}
        THEN f_span_end = -1
        ELSE /\ f_span_end = LeastOf(ZeroClosings(f_content))
             /\ f_message_content = Before(f_content, f_span_end)

\* ------------------------------------------------------------------------
\* Termination: one parse of a document, or one scan of a piece, run to its
\* end; a sequential program takes its next step whenever it has one
\* ------------------------------------------------------------------------

InitTerminate == Init \/ InitScan

NextTerminate ==
    \/ GetParser
    \/ CommentSkipBlank
    \/ CommentFlush
    \/ CommentAccumulate
    \/ CommentReturn
    \/ SpanSkip
    \/ SpanProcess
    \/ SpanReturn
    \/ FindSpanEndEnter
    \/ FindSpanEndOpening
    \/ FindSpanEndClosing
    \/ FindSpanEndOther
    \/ FindSpanEndExhausted

\* a step of a running parse as far as its control state goes: the actions
\* of Next, those that build messages taken by their loop control
ParseStep ==
    \/ GetParser
    \/ CommentSkipBlank
    \/ CommentFlushLoop
    \/ CommentAccumulate
    \/ CommentReturnLoop
    \/ SpanSkip
    \/ SpanProcessLoop
    \/ SpanReturn

\* the interpreter runs the call to its end: a parse that is running, a scan
\* that is running, takes its next step
SpecTerminate ==
    /\ InitTerminate
    /\ [][NextTerminate]_vars
    /\ WF_<<pc, idx>>(ParseStep)
    /\ WF_vars(NextScan)

\* every iteration of the while loop of _find_span_end moves the cursor
\* forward
CursorAdvances == (f_pc = "loop" /\ f_pc' = "loop") => f_i' > f_i

\* the for loops over lines and parts take the pieces one after the other,
\* from the first, and end behind the last
PieceVisitedOnce ==
    /\ (pc = "start" /\ pc' # "start") => idx' = 1
    /\ (pc = "comment" /\ pc' = "comment") =>
           idx <= Len(lines) /\ idx' = idx + 1 /\ lines' = lines
    /\ (pc = "span" /\ pc' = "span") =>
           idx <= Len(parts) /\ idx' = idx + 1 /\ parts' = parts
    /\ (pc = "comment" /\ pc' = "done") => idx = Len(lines) + 1
    /\ (pc = "span" /\ pc' = "done") => idx = Len(parts) + 1

\* C24: parsing terminates on every document and the scan on every piece:
\* the run reaches its end, every iteration of the scan moves the cursor
\* forward (also at a '<SPAN' with no '>'), the cursor stays within the text,
\* and the piece loops of both parsers visit each piece exactly once.
C24_ParsingTerminates ==
    /\ <>(pc = "done" \/ f_pc = "returned")
    /\ [](f_i <= Len(f_content))
    /\ [][CursorAdvances]_vars
    /\ [][PieceVisitedOnce]_vars

\* the scan of a piece whose '<SPAN' opening has no '>' has come to its end
C24_Witness ==
    /\ f_pc = "returned"
    /\ f_content = <<"x">> \o SpanOpening \o <<"x">>
    /\ f_i = Len(f_content)
    /\ f_span_count = 2
    /\ f_span_end = -1

\* ------------------------------------------------------------------------
\* C25: the blocks CommentBasedParser.parse hands to _process_message_line
\* ------------------------------------------------------------------------

\* the pieces of a document with a timestamp header
HeaderPieces(ls) == {i \in NonBlank(ls) : CommentCanParse(ls[i])}

\* the number of the block piece i belongs to
BlockOf(ls, i) == Cardinality({j \in BlockStarts(ls) : j <= i})

\* the messages the blocks yield, one call of _process_message_line each
RECURSIVE ProcessBlocks(_, _)
ProcessBlocks(blocks, msgs) ==
    IF blocks = <<>> THEN msgs
    ELSE ProcessBlocks(Tail(blocks), ProcessMessageLine(blocks[1], msgs))

\* the non-blank pieces are partitioned in order into the flushed blocks, a
\* piece with a header is the first of its block, the last block is flushed
\* too, and a block yields at most one Message however many pieces it has
BlocksPartitionPieces ==
    LET ls == Split(html_content, "<BR>")
    IN  /\ flushed_blocks = Blocks(html_content)
        /\ Flatten(flushed_blocks) = JoinPieces(ls, 1, Len(ls))
        /\ \A i \in HeaderPieces(ls) :
               /\ BlockOf(ls, i) \in 1..Len(flushed_blocks)
               /\ SubSeq(flushed_blocks[BlockOf(ls, i)], 1, Len(ls[i])) = ls[i]
        /\ current_message_html # <<>> =>
               flushed_blocks[Len(flushed_blocks)] = current_message_html
        /\ messages = ProcessBlocks(flushed_blocks, <<>>)
        /\ \A k \in 1..Len(flushed_blocks) :
               Len(ProcessMessageLine(flushed_blocks[k], <<>>)) <= 1

\* C25 as stated: the non-blank pieces are partitioned in order into the
\* flushed blocks, a piece with a header starts a new block, every piece
\* without a header has a header before it and belongs to the block of the
\* closest one, a block of several pieces yields one Message at most, and the
\* last block is flushed after the loop.
C25_PiecesJoinClosestHeader ==
    (pc = "done" /\ parser = "CommentBasedParser") =>
        LET ls == Split(html_content, "<BR>")
        IN  /\ BlocksPartitionPieces
            /\ \A i \in NonBlank(ls) \ HeaderPieces(ls) :
                   \E h \in HeaderPieces(ls) :
                       /\ h < i
                       /\ \A g \in HeaderPieces(ls) : g < i => g <= h
                       /\ BlockOf(ls, i) = BlockOf(ls, h)

\* C25, amended: the non-blank pieces are partitioned in order into the
\* flushed blocks, a piece with a header starts a new block, every piece
\* without a header belongs to the block of the closest header before it or,
\* when no header comes before it, to a first block without a header, a block
\* of several pieces yields one Message at most, and the last block is
\* flushed after the loop.
C25_PiecesJoinClosestHeaderOrLead ==
    (pc = "done" /\ parser = "CommentBasedParser") =>
        LET ls == Split(html_content, "<BR>")
        IN  /\ BlocksPartitionPieces
            /\ \A i \in NonBlank(ls) \ HeaderPieces(ls) :
                   LET before == {h \in HeaderPieces(ls) : h < i}
                   IN  IF before = {}
                       THEN /\ BlockOf(ls, i) = 1
                            /\ ~CommentCanParse(flushed_blocks[1])
                       ELSE \E h \in before :
                                /\ \A g \in before : g <= h
                                /\ BlockOf(ls, i) = BlockOf(ls, h)

\* two headers, the first with a body that runs over a line break: two
\* blocks, the first of two pieces, and one Message each
C25_Witness ==
    /\ pc = "done" /\ parser = "CommentBasedParser"
    /\ Len(flushed_blocks) = 2
    /\ Len(messages) = 2
    /\ LET ls == Split(html_content, "<BR>")
       IN  \E i \in NonBlank(ls) \ HeaderPieces(ls) : BlockOf(ls, i) = 1
    /\ CommentCanParse(flushed_blocks[1])

\* ------------------------------------------------------------------------
\* The comment-timestamp test: CommentBasedParser.can_parse
\* (aim_parser.py 52-54) and has_timestamp in parse (aim_parser.py 68-69)
\* ------------------------------------------------------------------------

\* the texts tested: at most MaxDetect of these lexemes
MaxDetect == 3

DetectLexemes == {"<!--(", ")-->", "1PM", SPANW}

RECURSIVE LexemeTexts(_)
LexemeTexts(n) ==
    IF n = 0 THEN {<<>>}
    ELSE {<<x>> \o rest : x \in DetectLexemes, rest \in LexemeTexts(n - 1)}

DetectTexts == UNION {LexemeTexts(n) : n \in 0..MaxDetect}

InitDetect ==
    /\ t_pc = "call"
    /\ t_op \in {"can_parse", "has_timestamp"}
    /\ t_html \in DetectTexts
    /\ t_result = None
    /\ IdleParse /\ IdleNormalize /\ IdleDate /\ IdleConvert /\ IdleSample /\ IdleProcess /\ IdleGenerate /\ IdleScan /\ IdleBatch

\* CommentBasedParser.can_parse(html_content)
CanParseReturn ==
    /\ t_pc = "call" /\ t_op = "can_parse"
    /\ t_result' = CommentCanParse(t_html)
    /\ t_pc' = "returned"
    /\ UNCHANGED <<t_op, t_html>>
    /\ UNCHANGED <<parse_vars, normalize_vars, date_vars, convert_vars, sample_vars, process_vars, generate_vars, scan_vars, batch_vars>>

\* parse: has_timestamp = '<!-- (' in line and ')-->' in line
HasTimestampReturn ==
    /\ t_pc = "call" /\ t_op = "has_timestamp"
    /\ t_result' = CommentCanParse(t_html)
    /\ t_pc' = "returned"
    /\ UNCHANGED <<t_op, t_html>>
    /\ UNCHANGED <<parse_vars, normalize_vars, date_vars, convert_vars, sample_vars, process_vars, generate_vars, scan_vars, batch_vars>>

NextDetect ==
    \/ CanParseReturn
    \/ HasTimestampReturn

SpecDetect == InitDetect /\ [][NextDetect]_vars

\* an opening delimiter with a closing delimiter somewhere behind it
OpeningThenClosing(text) ==
    \E i, j \in 1..Len(text) : i < j /\ text[i] = "<!--(" /\ text[j] = ")-->"

\* C26: the comment-timestamp test, in can_parse and per piece in parse, is
\* true only of a text with an opening delimiter followed later by a closing
\* delimiter; a text whose closing delimiters all stand before its opening
\* ones, a nested-markup text without comment markers and a text without any
\* marker are rejected.
C26_OpeningThenClosingOnly ==
    t_pc = "returned" => (t_result = TRUE => OpeningThenClosing(t_html))

\* ------------------------------------------------------------------------
\* C27: a sign-off notice behind a chat message, in the comment dialect
\* ------------------------------------------------------------------------

\* block b is a chat message with content whose header stands in front of a
\* sign-off notice
ChatThenSignOff(b) ==
    /\ CommentHeaderMatches(b)
    /\ Strip(C1_Text(b)) # <<>>
    /\ HasSignOff(b)
    /\ Find(b, "<!--(", 1) < Find(b, SIGNED, 1)

\* C27: a sign-off notice that follows a chat message behind a line break
\* does not make the chat message disappear: the messages returned hold the
\* chat message, with the sender and the timestamp of its header, and right
\* behind it the System sign-off message.
C27_SignOffKeepsChatMessage ==
    (pc = "done" /\ parser = "CommentBasedParser") =>
        \A k \in 1..Len(flushed_blocks) :
            ChatThenSignOff(flushed_blocks[k]) =>
                \E n \in 1..(Len(messages) - 1) :
                    /\ IsChat(messages[n])
                    /\ messages[n].sender = Strip(CommentHeaderGroups(flushed_blocks[k]).sender)
                    /\ messages[n].timestamp = Strip(CommentHeaderGroups(flushed_blocks[k]).timestamp)
                    /\ IsSystem(messages[n + 1])
                    /\ Contains(messages[n + 1].content, SIGNED)

\* ------------------------------------------------------------------------
\* C28: what convert renders of each message
\* ------------------------------------------------------------------------

\* the line that renders the content of message m: a quoted line of a block,
\* or the line of a callout that holds the content
RenderedLine(m) ==
    <<"> ">> \o (IF m.is_system_message THEN m.content ELSE EscapeMarkdown(m.content))

\* C28: convert returns for every message sequence, and the text it returns
\* renders the content of each message exactly once, as a quoted line of a
\* block or in a callout, in the order of the messages; nothing is left in
\* the pending group.
C28_EachContentRenderedOnceInOrder ==
    c_pc \in {"returned", "raised"} =>
        /\ c_pc = "returned"
        /\ Len(QuotePositions) = Len(c_messages)
        /\ \A k \in 1..Len(c_messages) :
               MarkdownLines[QuotePositions[k]] = RenderedLine(c_messages[k])

\* C28 for regular messages alone
RegularContentRenderedOnceInOrder ==
    (c_pc \in {"returned", "raised"} /\ AllRegular(c_messages)) =>
        /\ c_pc = "returned"
        /\ Len(QuotePositions) = Len(c_messages)
        /\ \A k \in 1..Len(c_messages) :
               MarkdownLines[QuotePositions[k]] = RenderedLine(c_messages[k])

\* ------------------------------------------------------------------------
\* C29: the entries of the sampled text
\* ------------------------------------------------------------------------

\* for every line of a text: the index in the conversation of the entry on
\* it, 0 when the line is no entry of the conversation, -1 for the
\* 'conversation continues' line and -2 for the 'end of conversation' line
EntryIndices(text_lines, content) ==
    [p \in 1..Len(text_lines) |->
        IF text_lines[p] = <<CONTINUES>> THEN 0 - 1
        ELSE IF text_lines[p] = <<END_OF_CONVERSATION>> THEN 0 - 2
        ELSE IF \E k \in 1..Len(content) : content[k] = text_lines[p]
        THEN CHOOSE k \in 1..Len(content) : content[k] = text_lines[p]
        ELSE 0]

\* the lines between the two separator lines, or behind the first one when
\* there is no second
MiddleOf(ix) ==
    {p \in DOMAIN ix :
        /\ ix[p] >= 0
        /\ \E q \in DOMAIN ix : q < p /\ ix[q] = 0 - 1
        /\ \A q \in DOMAIN ix : ix[q] = 0 - 2 => p < q}

\* the lines of the head and of the tail
OuterOf(ix) == {p \in DOMAIN ix : ix[p] >= 0} \ MiddleOf(ix)

\* C29: the lines of the sampled text that are not separators are entries of
\* the conversation, in the order of the conversation and none twice; the
\* entries sampled from the middle have strictly increasing indices that lie
\* strictly between those of the head kept and of the tail kept.
C29_SampleIsOrderedSubsequence ==
    s_pc = "returned" =>
        LET ix == EntryIndices(SampledLines, conversation_content)
            middle == MiddleOf(ix)
            outer == OuterOf(ix)
        IN  /\ \A p \in DOMAIN ix : ix[p] # 0
            /\ \A p, q \in middle \cup outer : p < q => ix[p] < ix[q]
            /\ \A p \in middle :
                   \A q \in outer : IF q < p THEN ix[q] < ix[p] ELSE ix[p] < ix[q]

\* a sample with a head, entries picked from a longer middle, and a tail
C29_Witness ==
    /\ s_pc = "returned"
    /\ Len(conversation_content) = 48
    /\ max_messages = 12
    /\ LET ix == EntryIndices(SampledLines, conversation_content)
       IN  /\ Cardinality(MiddleOf(ix)) = 6
           /\ Cardinality(OuterOf(ix)) = 6
           /\ \E p \in MiddleOf(ix) : \A q \in DOMAIN ix : ix[q] # ix[p] + 1

\* ------------------------------------------------------------------------
\* main: the loop over the files (main.py 176-223), with
\* _generate_standardized_filename (main.py 55-97)
\* ------------------------------------------------------------------------

\* the most files of a run
MaxFiles == 2

\* what the calls made for one file do in a run: the LLM call of
\* generate_filename and of generate_description answers or fails
\* (filename_generator.py 165-166, 108-109 raise RuntimeError), the LLM call
\* of evaluate_tags answers or fails (tag_evaluator.py 174-176 returns []),
\* process_file returns or raises (main.py 50-52)
FileRuns ==
    [title : {"answers", "fails"}, description : {"answers", "fails"},
     tags : {"answers", "fails"}, process_file : {"returns", "raises"}]

RECURSIVE FileListsOf(_)
FileListsOf(n) ==
    IF n = 0 THEN {<<>>}
    ELSE {l \o <<f>> : l \in FileListsOf(n - 1), f \in FileRuns}

\* files_to_process is not empty (main.py 166, 172-174)
InitBatch ==
    /\ b_pc = "file"
    /\ files_to_process \in UNION {FileListsOf(n) : n \in 1..MaxFiles}
    /\ b_index = 1
    /\ args_output \in BOOLEAN
    /\ tag_evaluator \in BOOLEAN
    /\ b_custom_tags = None
    /\ b_processed = <<>>
    /\ b_raised = None
    /\ IdleParse /\ IdleNormalize /\ IdleDate /\ IdleConvert /\ IdleSample /\ IdleProcess /\ IdleGenerate /\ IdleScan /\ IdleDetect

BatchFrame ==
    /\ UNCHANGED <<files_to_process, args_output, tag_evaluator>>
    /\ UNCHANGED <<parse_vars, normalize_vars, date_vars, convert_vars, sample_vars, process_vars, generate_vars, scan_vars, detect_vars>>

\* tag_evaluator.evaluate_tags(messages): the tags, [] when the call fails
EvaluatedTags(file) == IF file.tags = "answers" THEN <<"school">> ELSE <<>>

\* lines 178-193: args.output is given, the output path is derived from it
BatchOutputPath ==
    /\ b_pc = "file"
    /\ b_index <= Len(files_to_process)
    /\ args_output
    /\ b_custom_tags' = None
    /\ b_pc' = "tags"
    /\ UNCHANGED <<b_index, b_processed, b_raised>>
    /\ BatchFrame

\* lines 178-181, 194-196: _generate_standardized_filename returns
BatchStandardize ==
    /\ b_pc = "file"
    /\ b_index <= Len(files_to_process)
    /\ ~args_output
    /\ files_to_process[b_index].title = "answers"
    /\ files_to_process[b_index].description = "answers"
    /\ b_custom_tags' = IF tag_evaluator THEN EvaluatedTags(files_to_process[b_index]) ELSE <<>>
    /\ b_pc' = "tags"
    /\ UNCHANGED <<b_index, b_processed, b_raised>>
    /\ BatchFrame

\* lines 194-196: generate_filename or generate_description raises
\* RuntimeError in _generate_standardized_filename (main.py 84-85); the
\* call stands outside the try of line 217 and the exception leaves main
BatchStandardizeRaise ==
    /\ b_pc = "file"
    /\ b_index <= Len(files_to_process)
    /\ ~args_output
    /\ \/ files_to_process[b_index].title = "fails"
       \/ files_to_process[b_index].description = "fails"
    /\ b_raised' = Raised("RuntimeError")
    /\ b_pc' = "aborted"
    /\ UNCHANGED <<b_index, b_custom_tags, b_processed>>
    /\ BatchFrame

\* lines 199-215: the tags are evaluated here when they are not yet
BatchEvaluateTags ==
    /\ b_pc = "tags"
    /\ b_custom_tags' =
           IF tag_evaluator /\ None = b_custom_tags
           THEN EvaluatedTags(files_to_process[b_index])
           ELSE b_custom_tags
    /\ b_pc' = "process"
    /\ UNCHANGED <<b_index, b_processed, b_raised>>
    /\ BatchFrame

\* lines 217-221: process_file is called; an exception it raises is caught
\* and the loop goes on with the next file
BatchProcessFile ==
    /\ b_pc = "process"
    /\ b_processed' =
           Append(b_processed, <<b_index, files_to_process[b_index].process_file>>)
    /\ b_index' = b_index + 1
    /\ b_pc' = "file"
    /\ UNCHANGED <<b_custom_tags, b_raised>>
    /\ BatchFrame

\* line 223: the loop is over
BatchEnd ==
    /\ b_pc = "file"
    /\ b_index > Len(files_to_process)
    /\ b_pc' = "done"
    /\ UNCHANGED <<b_index, b_custom_tags, b_processed, b_raised>>
    /\ BatchFrame

NextBatch ==
    \/ BatchOutputPath
    \/ BatchStandardize
    \/ BatchStandardizeRaise
    \/ BatchEvaluateTags
    \/ BatchProcessFile
    \/ BatchEnd

SpecBatch == InitBatch /\ [][NextBatch]_vars

\* C30: a failure while one file is handled (title or description
\* generation, tag evaluation, conversion) stays with that file: main comes
\* to the end of its loop, and every file of the run has been handed to
\* process_file, in order.
C30_FailureConfinedToFile ==
    b_pc \in {"done", "aborted"} =>
        /\ b_pc = "done"
        /\ None = b_raised
        /\ [k \in 1..Len(b_processed) |-> b_processed[k][1]]
               = [k \in 1..Len(files_to_process) |-> k]

\* C30 with args.output given: no title or description is generated, and a
\* failure of tag evaluation or of process_file stays with its file
FailureConfinedWithOutputGiven ==
    (b_pc \in {"done", "aborted"} /\ args_output) =>
        /\ b_pc = "done"
        /\ None = b_raised
        /\ [k \in 1..Len(b_processed) |-> b_processed[k][1]]
               = [k \in 1..Len(files_to_process) |-> k]

====
